---- MODULE Spec2Model ----
(***************************************************************************)
(* Model of ddd: the file type detector (internal/detector/detector.go),   *)
(* the two line parsers (internal/reporters/iostat_parser.go,              *)
(* internal/reporters/ttop_parser.go), and the server around them: the     *)
(* tables of internal/database/database.go, the uploads directory, the     *)
(* handlers of internal/handlers/handlers.go, the report worker and the    *)
(* cleanup worker of internal/workers.                                     *)
(*                                                                         *)
(* A Go string is a sequence of one-character strings, so that TrimSpace,  *)
(* Fields, HasPrefix, Contains, Count, ParseFloat and Atoi are computed    *)
(* character by character as the library computes them.  A float64 is the  *)
(* reduced decimal fraction <<numerator, denominator>>.  A nil pointer or  *)
(* nil error is the empty sequence None, a non-nil one is Some(v) = <<v>>. *)
(* An input is a sequence of lines, as bufio.Scanner delivers them.        *)
(***************************************************************************)
EXTENDS Integers, Sequences, FiniteSets, TLC

VARIABLES
    ioInput,            \* ParseIOStat: numbers (in IOStatLines) of the lines scanned so far
    lineNumber,         \* ParseIOStat: lineNumber
    ioSnapshots,        \* ParseIOStat: snapshots
    ioCurrent,          \* ParseIOStat: currentSnapshot (None = nil)
    systemInfo,         \* ParseIOStat: systemInfo
    inDeviceSection,    \* ParseIOStat: inDeviceSection
    expectingCPUStats,  \* ParseIOStat: expectingCPUStats
    ioPc,               \* ParseIOStat: "scan" inside the loop, "done" after return
    ioData,             \* ParseIOStat: returned *IOStatReportData (None = nil)
    ioErr,              \* ParseIOStat: returned error (None = nil)
    ttInput,            \* ParseTTop: numbers (in TTopLines) of the lines scanned so far
    ttSnapshots,        \* ParseTTop: snapshots
    ttCurrent,          \* ParseTTop: currentSnapshot (None = nil)
    ttScanErr,          \* ParseTTop: scanner.Err() (None = nil)
    ttPc,               \* ParseTTop: "scan" inside the loop, "done" after return
    ttData,             \* ParseTTop: returned *TTopReportData (None = nil)
    ttErr,              \* ParseTTop: returned error (None = nil)
    dtFilename,         \* DetectFileType: filename
    dtContent,          \* DetectFileType: content, as the archive readers see it
    dtResult,           \* DetectFileType: returned file type ("" before the return)
    dtPc,               \* DetectFileType: "idle" before the call, "done" after return
    ttFirst,            \* caller of ParseTTop: what the first of two calls returned (None before)
    ioFirst,            \* caller of ParseIOStat: what the first of two calls returned (None before)
    dbFiles,            \* database: table files, by id
    dbReports,          \* database: table reports, by id
    nextFileID,         \* database: the id AUTOINCREMENT gives the next row of files
    nextReportID,       \* database: the id AUTOINCREMENT gives the next row of reports
    disk,               \* the paths of the files in the uploads directory
    today,              \* time.Now(), in days
    uploads,            \* HandleUpload: the request of each slot, where it is, its answer
    worker,             \* ReportWorker: where processReports is, its rows, its report
    fileOp,             \* HandleFileOperations, DELETE: where the request is, its file
    reportOp,           \* HandleReports, DELETE: where the request is, its report, its file
    redetectOp,         \* HandleRedetectFileType: where the request is, its file, the type
    cleaner,            \* CleanupWorker: where performCleanup is, its files
    settings,           \* database: table settings, value by key
    triggerChan,        \* CleanupWorker: the number of values in triggerChan
    cfg,                \* config.Config: MaxDiskUsage, FileRetentionDays
    goTrigger           \* HandleSettings: the goroutines started to run TriggerCleanup

ioVars == <<ioInput, lineNumber, ioSnapshots, ioCurrent, systemInfo, inDeviceSection,
            expectingCPUStats, ioPc, ioData, ioErr>>

ttVars == <<ttInput, ttSnapshots, ttCurrent, ttScanErr, ttPc, ttData, ttErr>>

dtVars == <<dtFilename, dtContent, dtResult, dtPc>>

twVars == <<ttFirst, ioFirst>>

opVars == <<fileOp, reportOp, redetectOp>>

cwVars == <<cleaner, settings, triggerChan, cfg, goTrigger>>

svVars == <<dbFiles, dbReports, nextFileID, nextReportID, disk, today, uploads, worker,
            opVars, cwVars>>

vars == <<ioVars, ttVars, dtVars, twVars, svVars>>

None == <<>>
Some(v) == <<v>>

----------------------------------------------------------------------------
(* Bounds *)

\* longest input (in lines) given to ParseIOStat, over all of IOStatLines
MaxIOLines == 4

\* longest input (in lines) given to ParseIOStat, over IOStatSeriesLines
MaxIOSeriesLines == 6

\* longest input (in lines) given to ParseTTop
MaxTTopLines == 3

\* longest input (in lines) given to a parser that is called twice on it
MaxTwiceLines == 3

\* most rows ever inserted into table files, and into table reports, while the
\* report worker is watched
MaxWorkerFiles == 1
MaxWorkerReports == 2

\* latest time of the clock, in days
MaxClock == 1

\* the file records and the reports made while uploads run side by side
MaxUploadFiles == 2
MaxUploadReports == 2

\* the file records and the reports made while files and reports are deleted
MaxDeleteFiles == 1
MaxDeleteReports == 2

\* the file records and the reports made while orphaned records are cleaned up
MaxOrphanFiles == 2
MaxOrphanReports == 2

\* the files, the reports and the days while the cleanup worker is watched
MaxCleanupFiles == 2
MaxCleanupReports == 2
MaxCleanupClock == 1

\* the files (by id) that are deleted by request while the cleanup worker is watched
MaxCleanupDeletes == 1

\* the file records and the reports made while file types are detected again
MaxRedetectFiles == 2
MaxRedetectReports == 2

\* the goroutines started by HandleSettings that have not yet run TriggerCleanup
MaxGoroutines == 2
MaxLoopFiles == 2
MaxPressureFiles == 2
MaxPressureClock == 1

\* longest input (in lines) given to ParseTTop, over TTopSeriesLines
MaxTTopSeriesLines == 4

\* longest input (in lines) given to ParseTTop, over TTopRowLines
MaxTTopRowLines == 4

----------------------------------------------------------------------------
(* package strings, package strconv *)

Digits == <<"0", "1", "2", "3", "4", "5", "6", "7", "8", "9">>

IsDigit(c) == \E i \in 1..Len(Digits) : Digits[i] = c

DigitVal(c) == (CHOOSE i \in 1..Len(Digits) : Digits[i] = c) - 1

IsSpace(c) == c \in {" ", "\t", "\r"}

RECURSIVE TrimLeft(_)
TrimLeft(s) == IF s # <<>> /\ IsSpace(Head(s)) THEN TrimLeft(Tail(s)) ELSE s

RECURSIVE TrimRight(_)
TrimRight(s) ==
    IF s # <<>> /\ IsSpace(s[Len(s)]) THEN TrimRight(SubSeq(s, 1, Len(s) - 1)) ELSE s

TrimSpace(s) == TrimRight(TrimLeft(s))

\* strings.Fields: the maximal runs of non-space characters, in order
RECURSIVE FieldsFrom(_, _, _)
FieldsFrom(s, cur, acc) ==
    IF s = <<>> THEN (IF cur = <<>> THEN acc ELSE Append(acc, cur))
    ELSE IF IsSpace(Head(s))
         THEN FieldsFrom(Tail(s), <<>>, IF cur = <<>> THEN acc ELSE Append(acc, cur))
         ELSE FieldsFrom(Tail(s), Append(cur, Head(s)), acc)

Fields(s) == FieldsFrom(s, <<>>, <<>>)

HasPrefix(s, p) == Len(s) >= Len(p) /\ SubSeq(s, 1, Len(p)) = p

HasSuffix(s, p) == Len(s) >= Len(p) /\ SubSeq(s, Len(s) - Len(p) + 1, Len(s)) = p

TrimPrefix(s, p) == IF HasPrefix(s, p) THEN SubSeq(s, Len(p) + 1, Len(s)) ELSE s

TrimSuffix(s, p) == IF HasSuffix(s, p) THEN SubSeq(s, 1, Len(s) - Len(p)) ELSE s

\* strings.Index, 1-based; 0 when sub does not occur (Go: -1)
Index(s, sub) ==
    LET hits == {i \in 1..(Len(s) - Len(sub) + 1) : SubSeq(s, i, i + Len(sub) - 1) = sub}
    IN  IF hits = {} THEN 0 ELSE CHOOSE i \in hits : \A j \in hits : i <= j

Contains(s, sub) == Index(s, sub) # 0

\* strings.Count for a one-character separator
Count(s, c) == Cardinality({i \in 1..Len(s) : s[i] = c})

\* strings.Split for a one-character separator
RECURSIVE SplitFrom(_, _, _, _)
SplitFrom(s, c, cur, acc) ==
    IF s = <<>> THEN Append(acc, cur)
    ELSE IF Head(s) = c THEN SplitFrom(Tail(s), c, <<>>, Append(acc, cur))
         ELSE SplitFrom(Tail(s), c, Append(cur, Head(s)), acc)

Split(s, c) == SplitFrom(s, c, <<>>, <<>>)

\* strings.Join
RECURSIVE Join(_, _)
Join(elems, sep) ==
    IF elems = <<>> THEN <<>>
    ELSE IF Len(elems) = 1 THEN elems[1]
         ELSE elems[1] \o sep \o Join(Tail(elems), sep)

RECURSIVE DigitsToInt(_, _)
DigitsToInt(s, acc) ==
    IF s = <<>> THEN acc ELSE DigitsToInt(Tail(s), 10 * acc + DigitVal(Head(s)))

AllDigits(s) == \A i \in 1..Len(s) : IsDigit(s[i])

StripSign(s) == IF s # <<>> /\ Head(s) \in {"+", "-"} THEN Tail(s) ELSE s

IsNegative(s) == s # <<>> /\ Head(s) = "-"

\* strconv.Atoi on the decimal grammar [+-]digits
Atoi(s) ==
    LET body == StripSign(s)
    IN  IF body # <<>> /\ AllDigits(body)
        THEN [ok |-> TRUE,
              val |-> IF IsNegative(s) THEN 0 - DigitsToInt(body, 0) ELSE DigitsToInt(body, 0)]
        ELSE [ok |-> FALSE, val |-> 0]

RECURSIVE Pow10(_)
Pow10(n) == IF n = 0 THEN 1 ELSE 10 * Pow10(n - 1)

RECURSIVE Reduce(_, _)
Reduce(num, den) ==
    IF den > 1 /\ num % 10 = 0 THEN Reduce(num \div 10, den \div 10) ELSE <<num, den>>

\* strconv.ParseFloat(s, 64) on the decimal grammar [+-]digits[.digits] (at least one
\* digit); exponents, hexadecimal floats, inf and nan are outside the modelled inputs.
ParseFloat(s) ==
    LET body == StripSign(s)
        dot  == Index(body, <<".">>)
        ip   == IF dot = 0 THEN body ELSE SubSeq(body, 1, dot - 1)
        fp   == IF dot = 0 THEN <<>> ELSE SubSeq(body, dot + 1, Len(body))
        mag  == Reduce(DigitsToInt(ip \o fp, 0), Pow10(Len(fp)))
    IN  IF AllDigits(ip) /\ AllDigits(fp) /\ Len(ip) + Len(fp) > 0
        THEN [ok |-> TRUE, val |-> IF IsNegative(s) THEN <<0 - mag[1], mag[2]>> ELSE mag]
        ELSE [ok |-> FALSE, val |-> <<0, 1>>]

----------------------------------------------------------------------------
(* package time *)

IsLeap(y) == (y % 4 = 0 /\ y % 100 # 0) \/ y % 400 = 0

DaysIn(m, y) ==
    IF m = 2 THEN (IF IsLeap(y) THEN 29 ELSE 28)
    ELSE IF m \in {4, 6, 9, 11} THEN 30 ELSE 31

\* the two-digit fields "01", "02", "06", "04", "05" of a layout take exactly two digits
TwoDigits(s) == Len(s) = 2 /\ AllDigits(s)

\* the hour field "15" takes one or two digits
HourDigits(s) == Len(s) \in {1, 2} /\ AllDigits(s)

\* time.Parse("15:04:05", s)
ParseClock(s) ==
    LET p == Split(s, ":")
    IN  IF Len(p) = 3 /\ HourDigits(p[1]) /\ TwoDigits(p[2]) /\ TwoDigits(p[3])
           /\ DigitsToInt(p[1], 0) < 24 /\ DigitsToInt(p[2], 0) < 60
           /\ DigitsToInt(p[3], 0) < 60
        THEN [ok |-> TRUE, hour |-> DigitsToInt(p[1], 0), min |-> DigitsToInt(p[2], 0),
              sec |-> DigitsToInt(p[3], 0)]
        ELSE [ok |-> FALSE, hour |-> 0, min |-> 0, sec |-> 0]

\* time.Parse("01/02/06", s); a two-digit year yy is 19yy from 69 on, else 20yy
ParseDate(s) ==
    LET p  == Split(s, "/")
        mo == DigitsToInt(p[1], 0)
        dd == DigitsToInt(p[2], 0)
        yy == DigitsToInt(p[3], 0)
        yr == IF yy >= 69 THEN 1900 + yy ELSE 2000 + yy
    IN  IF Len(p) = 3 /\ TwoDigits(p[1]) /\ TwoDigits(p[2]) /\ TwoDigits(p[3])
           /\ mo \in 1..12 /\ dd >= 1 /\ dd <= DaysIn(mo, yr)
        THEN [ok |-> TRUE, year |-> yr, month |-> mo, day |-> dd]
        ELSE [ok |-> FALSE, year |-> 0, month |-> 0, day |-> 0]

\* the zero time.Time
ZeroTime == [year |-> 1, month |-> 1, day |-> 1, hour |-> 0, min |-> 0, sec |-> 0]

----------------------------------------------------------------------------
(* Input lines of ParseIOStat *)

Str_Linux     == <<"L", "i", "n", "u", "x">>
Str_avgcpu    == <<"a", "v", "g", "-", "c", "p", "u", ":">>
Str_Device    == <<"D", "e", "v", "i", "c", "e">>
Str_sda       == <<"s", "d", "a">>
Str_sdb       == <<"s", "d", "b">>
Str_invalid   == <<"i", "n", "v", "a", "l", "i", "d">>
Str_date      == <<"0", "9", "/", "0", "4", "/", "2", "4">>
Str_nodate    == <<"1", "3", "/", "4", "5", "/", "2", "4">>
Str_clock1    == <<"1", "2", ":", "0", "7", ":", "2", "0">>
Str_clock2    == <<"1", "2", ":", "0", "7", ":", "2", "1">>
Str_pctUser   == <<"%", "u", "s", "e", "r">>
Str_pctIdle   == <<"%", "i", "d", "l", "e">>
Str_rps       == <<"r", "/", "s">>
Str_host      == <<"(", "h", "o", "s", "t", ")">>
Str_2_36      == <<"2", ".", "3", "6">>
Str_0_00      == <<"0", ".", "0", "0">>
Str_97_20     == <<"9", "7", ".", "2", "0">>
Str_1_5       == <<"1", ".", "5">>
Str_1_50      == <<"1", ".", "5", "0">>
Str_7         == <<"7">>
Str_SP        == <<" ">>

Words(ws) == Join(ws, Str_SP)

Rep(w, n) == [k \in 1..n |-> w]

\* the lines an input is made of; what each one exercises is said on the right
IOStatLines == <<
    <<" ", "\t">>,                                               \*  1 blank
    Words(<<Str_Linux, Str_1_5, Str_host>>),                     \*  2 system header
    Words(<<Str_date, Str_clock1>>),                             \*  3 timestamp
    Words(<<Str_date, Str_clock2>>) \o <<" ">>,                  \*  4 a later timestamp
    Words(<<Str_nodate, Str_clock1>>),                           \*  5 timestamp shape, no date
    Words(<<Str_date, Str_clock1, Str_Linux>>),                  \*  6 timestamp with "Linux"
    Words(<<Str_avgcpu, Str_pctUser, Str_pctIdle>>),             \*  7 CPU header
    <<" ", " ">> \o Words(<<Str_2_36, Str_0_00, Str_0_00, Str_1_5, Str_7, Str_97_20>>),
                                                                 \*  8 CPU row
    Words(<<Str_invalid, Str_0_00, Str_0_00, Str_1_5, Str_7, Str_97_20>>),
                                                                 \*  9 CPU row, bad number
    Words(<<Str_2_36, Str_0_00, Str_0_00, Str_1_5>>),            \* 10 CPU row, 4 fields
    Words(<<Str_Device, Str_rps>>),                              \* 11 device header
    Words(<<Str_sda>> \o Rep(Str_7, 22)),                        \* 12 device row
    Words(<<Str_sdb>> \o Rep(Str_7, 21) \o <<Str_1_50>>),        \* 13 another device row
    Words(<<Str_sda>> \o Rep(Str_7, 21)),                        \* 14 device row, 22 fields
    Words(<<Str_sda>> \o Rep(Str_7, 21) \o <<Str_invalid>>),     \* 15 device row, bad number
    Words(<<Str_avgcpu, Str_Linux>>)                             \* 16 CPU header with "Linux"
>>

IOStatLineNumbers == 1..Len(IOStatLines)

----------------------------------------------------------------------------
(* internal/reporters/iostat_parser.go *)

\* isTimestampLine that looks at the length of the first field only
isTimestampLine_ByLength(line) ==
    LET parts == Fields(line)
    IN  IF Len(parts) < 2 THEN FALSE
        ELSE Len(parts[1]) = 8

\* isTimestampLine
isTimestampLine(line) ==
    LET parts == Fields(line)
    IN  IF Len(parts) < 2 THEN FALSE
        ELSE Len(parts[1]) = 8 /\ Count(parts[1], "/") = 2

\* time.Parse("01/02/06 15:04:05", parts[0] + " " + parts[1])
parseIOStatTimestamp(line) ==
    LET parts == Fields(line)
        d     == ParseDate(parts[1])
        c     == ParseClock(parts[2])
    IN  IF Len(parts) < 2
        THEN [ok |-> FALSE, err |-> "invalid timestamp line format", val |-> ZeroTime]
        ELSE IF d.ok /\ c.ok /\ Len(parts[2]) = 8
        THEN [ok |-> TRUE, err |-> "",
              val |-> [year |-> d.year, month |-> d.month, day |-> d.day,
                       hour |-> c.hour, min |-> c.min, sec |-> c.sec]]
        ELSE [ok |-> FALSE, err |-> "failed to parse timestamp", val |-> ZeroTime]

CPUFieldNames == <<"user", "nice", "system", "iowait", "steal", "idle">>

NoCPUStats == [User |-> <<0, 1>>, Nice |-> <<0, 1>>, System |-> <<0, 1>>,
               IOWait |-> <<0, 1>>, Steal |-> <<0, 1>>, Idle |-> <<0, 1>>]

parseCPUStatsLine(line) ==
    LET fields == Fields(line)
        bad    == {k \in 1..Len(fields) : ~ParseFloat(fields[k]).ok}
        first  == CHOOSE k \in bad : \A j \in bad : k <= j
    IN  IF Len(fields) # 6
        THEN [ok |-> FALSE, err |-> "expected 6 CPU stat fields", n |-> Len(fields),
              val |-> NoCPUStats]
        ELSE IF bad # {}
        THEN [ok |-> FALSE, err |-> "failed to parse " \o CPUFieldNames[first] \o " CPU",
              n |-> first - 1, val |-> NoCPUStats]
        ELSE [ok |-> TRUE, err |-> "", n |-> 0,
              val |-> [User   |-> ParseFloat(fields[1]).val,
                       Nice   |-> ParseFloat(fields[2]).val,
                       System |-> ParseFloat(fields[3]).val,
                       IOWait |-> ParseFloat(fields[4]).val,
                       Steal  |-> ParseFloat(fields[5]).val,
                       Idle   |-> ParseFloat(fields[6]).val]]

NoDeviceStats == [Device |-> <<>>, values |-> <<>>]

\* parseDeviceStatsLine that takes an unparsable number as 0
parseDeviceStatsLine_ZeroFill(line) ==
    LET fields == Fields(line)
    IN  IF Len(fields) # 23
        THEN [ok |-> FALSE, err |-> "expected 23 device stat fields", n |-> Len(fields),
              val |-> NoDeviceStats]
        ELSE [ok |-> TRUE, err |-> "", n |-> 0,
              val |-> [Device |-> fields[1],
                       values |-> [k \in 1..22 |-> ParseFloat(fields[k + 1]).val]]]

\* DeviceStats is its Device and the 22 numbers in column order: values[k] is the
\* struct field that the code fills from values[k-1] (ReadsPerS ... Utilization).
parseDeviceStatsLine(line) ==
    LET fields == Fields(line)
        bad    == {k \in 2..Len(fields) : ~ParseFloat(fields[k]).ok}
        first  == CHOOSE k \in bad : \A j \in bad : k <= j
    IN  IF Len(fields) # 23
        THEN [ok |-> FALSE, err |-> "expected 23 device stat fields", n |-> Len(fields),
              val |-> NoDeviceStats]
        ELSE IF bad # {}
        THEN [ok |-> FALSE, err |-> "failed to parse field", n |-> first - 1,
              val |-> NoDeviceStats]
        ELSE [ok |-> TRUE, err |-> "", n |-> 0,
              val |-> [Device |-> fields[1],
                       values |-> [k \in 1..22 |-> ParseFloat(fields[k + 1]).val]]]

\* What the loop body of ParseIOStat computes from one line, before it looks at its
\* own variables: line is strings.TrimSpace(scanner.Text()).
IOStatLineFacts(raw) ==
    LET line == TrimSpace(raw)
    IN  [line            |-> line,
         empty           |-> line = <<>>,
         containsLinux   |-> Contains(line, Str_Linux),
         isTimestampLine |-> isTimestampLine(line),
         timestamp       |-> parseIOStatTimestamp(line),
         avgcpuPrefix    |-> HasPrefix(line, Str_avgcpu),
         DevicePrefix    |-> HasPrefix(line, Str_Device),
         nFields         |-> Len(Fields(line)),
         cpuStats        |-> parseCPUStatsLine(line),
         deviceStats     |-> parseDeviceStatsLine(line)]

\* one evaluation per line of IOStatLines
IOStatFacts == <<>> \o [i \in IOStatLineNumbers |-> IOStatLineFacts(IOStatLines[i])]

\* IOStatError with the line counted from 0
IOStatError_ZeroBased(n, msg, arg, cause) ==
    Some([line |-> n - 1, msg |-> msg, arg |-> arg, cause |-> cause])

\* fmt.Errorf("line %d: <msg>[: %w]", lineNumber, ...): the line, the message, the
\* number the message or its cause carries, and the text of the wrapped error
IOStatError(n, msg, arg, cause) ==
    Some([line |-> n, msg |-> msg, arg |-> arg, cause |-> cause])

\* return data, err
IOStatReturn(data, err) ==
    /\ ioPc' = "done"
    /\ ioData' = data
    /\ ioErr' = err

\* continue, or the end of the loop body
IOStatContinue == UNCHANGED <<ioPc, ioData, ioErr>>

\* IOStatOnTimestamp that starts the new snapshot with the devices of the previous one
IOStatOnTimestamp_KeepDevices(F) ==
    IF ioCurrent # None /\ expectingCPUStats
    THEN /\ IOStatReturn(None, IOStatError(lineNumber',
                "expected CPU statistics after timestamp, but found another timestamp",
                0, ""))
         /\ UNCHANGED <<ioSnapshots, ioCurrent, systemInfo, inDeviceSection,
                        expectingCPUStats>>
    ELSE /\ ioSnapshots' = IF ioCurrent # None
                           THEN Append(ioSnapshots, ioCurrent[1])
                           ELSE ioSnapshots
         /\ IF ~F.timestamp.ok
            THEN /\ IOStatReturn(None, IOStatError(lineNumber',
                        "failed to parse timestamp", 0, F.timestamp.err))
                 /\ UNCHANGED <<ioCurrent, systemInfo, inDeviceSection, expectingCPUStats>>
            ELSE /\ ioCurrent' = Some([Timestamp |-> F.timestamp.val,
                                       CPUStats  |-> None,
                                       Devices   |-> IF ioCurrent # None
                                                     THEN ioCurrent[1].Devices
                                                     ELSE <<>>])
                 /\ inDeviceSection' = FALSE
                 /\ expectingCPUStats' = TRUE
                 /\ IOStatContinue
                 /\ UNCHANGED systemInfo

\* IOStatOnTimestamp without the check of the previous snapshot
IOStatOnTimestamp_Unchecked(F) ==
    /\ ioSnapshots' = IF ioCurrent # None
                      THEN Append(ioSnapshots, ioCurrent[1])
                      ELSE ioSnapshots
    /\ IF ~F.timestamp.ok
       THEN /\ IOStatReturn(None, IOStatError(lineNumber',
                   "failed to parse timestamp", 0, F.timestamp.err))
            /\ UNCHANGED <<ioCurrent, systemInfo, inDeviceSection, expectingCPUStats>>
       ELSE /\ ioCurrent' = Some([Timestamp |-> F.timestamp.val,
                                  CPUStats  |-> None,
                                  Devices   |-> <<>>])
            /\ inDeviceSection' = FALSE
            /\ expectingCPUStats' = TRUE
            /\ IOStatContinue
            /\ UNCHANGED systemInfo

\* `if isTimestampLine(line) { ... }`
IOStatOnTimestamp(F) ==
    IF ioCurrent # None /\ expectingCPUStats
    THEN /\ IOStatReturn(None, IOStatError(lineNumber',
                "expected CPU statistics after timestamp, but found another timestamp",
                0, ""))
         /\ UNCHANGED <<ioSnapshots, ioCurrent, systemInfo, inDeviceSection,
                        expectingCPUStats>>
    ELSE /\ ioSnapshots' = IF ioCurrent # None
                           THEN Append(ioSnapshots, ioCurrent[1])
                           ELSE ioSnapshots
         /\ IF ~F.timestamp.ok
            THEN /\ IOStatReturn(None, IOStatError(lineNumber',
                        "failed to parse timestamp", 0, F.timestamp.err))
                 /\ UNCHANGED <<ioCurrent, systemInfo, inDeviceSection, expectingCPUStats>>
            ELSE /\ ioCurrent' = Some([Timestamp |-> F.timestamp.val,
                                       CPUStats  |-> None,
                                       Devices   |-> <<>>])
                 /\ inDeviceSection' = FALSE
                 /\ expectingCPUStats' = TRUE
                 /\ IOStatContinue
                 /\ UNCHANGED systemInfo

\* IOStatOnCPUHeader that takes every header as the expected one
IOStatOnCPUHeader_Lenient(F) ==
    /\ inDeviceSection' = FALSE
    /\ IOStatContinue
    /\ UNCHANGED <<ioSnapshots, ioCurrent, systemInfo, expectingCPUStats>>

\* `if strings.HasPrefix(line, "avg-cpu:") && currentSnapshot != nil { ... }`
IOStatOnCPUHeader(F) ==
    IF ~expectingCPUStats
    THEN /\ IOStatReturn(None, IOStatError(lineNumber',
                "unexpected CPU statistics header", 0, ""))
         /\ UNCHANGED <<ioSnapshots, ioCurrent, systemInfo, inDeviceSection,
                        expectingCPUStats>>
    ELSE /\ inDeviceSection' = FALSE
         /\ IOStatContinue
         /\ UNCHANGED <<ioSnapshots, ioCurrent, systemInfo, expectingCPUStats>>

\* IOStatOnCPURow that skips a line of another field count
IOStatOnCPURow_Skipping(F) ==
    IF F.nFields = 6
    THEN IF ~F.cpuStats.ok
         THEN /\ IOStatReturn(None, IOStatError(lineNumber',
                     "failed to parse CPU statistics", F.cpuStats.n, F.cpuStats.err))
              /\ UNCHANGED <<ioSnapshots, ioCurrent, systemInfo, inDeviceSection,
                             expectingCPUStats>>
         ELSE /\ ioCurrent' = Some([ioCurrent[1] EXCEPT !.CPUStats = Some(F.cpuStats.val)])
              /\ expectingCPUStats' = FALSE
              /\ IOStatContinue
              /\ UNCHANGED <<ioSnapshots, systemInfo, inDeviceSection>>
    ELSE /\ IOStatContinue
         /\ UNCHANGED <<ioSnapshots, ioCurrent, systemInfo, inDeviceSection,
                        expectingCPUStats>>

\* `if expectingCPUStats && ... { fields := strings.Fields(line) ... continue }`
IOStatOnCPURow(F) ==
    IF F.nFields = 6
    THEN IF ~F.cpuStats.ok
         THEN /\ IOStatReturn(None, IOStatError(lineNumber',
                     "failed to parse CPU statistics", F.cpuStats.n, F.cpuStats.err))
              /\ UNCHANGED <<ioSnapshots, ioCurrent, systemInfo, inDeviceSection,
                             expectingCPUStats>>
         ELSE /\ ioCurrent' = Some([ioCurrent[1] EXCEPT !.CPUStats = Some(F.cpuStats.val)])
              /\ expectingCPUStats' = FALSE
              /\ IOStatContinue
              /\ UNCHANGED <<ioSnapshots, systemInfo, inDeviceSection>>
    ELSE IF F.nFields > 0
    THEN /\ IOStatReturn(None, IOStatError(lineNumber',
                "expected CPU statistics with 6 fields, got %d fields", F.nFields, ""))
         /\ UNCHANGED <<ioSnapshots, ioCurrent, systemInfo, inDeviceSection,
                        expectingCPUStats>>
    ELSE /\ IOStatContinue
         /\ UNCHANGED <<ioSnapshots, ioCurrent, systemInfo, inDeviceSection,
                        expectingCPUStats>>

\* `if inDeviceSection && currentSnapshot != nil { ... }`
IOStatOnDeviceRow(F) ==
    IF ~F.deviceStats.ok
    THEN /\ IOStatReturn(None, IOStatError(lineNumber',
                "failed to parse device statistics", F.deviceStats.n, F.deviceStats.err))
         /\ UNCHANGED <<ioSnapshots, ioCurrent, systemInfo, inDeviceSection,
                        expectingCPUStats>>
    ELSE /\ ioCurrent' = Some([ioCurrent[1] EXCEPT
                                 !.Devices = Append(@, F.deviceStats.val)])
         /\ IOStatContinue
         /\ UNCHANGED <<ioSnapshots, systemInfo, inDeviceSection, expectingCPUStats>>

\* ParseIOStatLine that takes every line containing "Linux" as the system information
ParseIOStatLine_LastLinux(i) ==
    /\ ioPc = "scan"
    /\ ioInput' = Append(ioInput, i)
    /\ lineNumber' = lineNumber + 1
    /\ UNCHANGED <<ttVars, dtVars, twVars, svVars>>
    /\ LET F == IOStatFacts[i]
       IN  IF F.empty
           THEN /\ IOStatContinue
                /\ UNCHANGED <<ioSnapshots, ioCurrent, systemInfo, inDeviceSection,
                               expectingCPUStats>>
           ELSE IF F.containsLinux
           THEN /\ systemInfo' = F.line
                /\ IOStatContinue
                /\ UNCHANGED <<ioSnapshots, ioCurrent, inDeviceSection, expectingCPUStats>>
           ELSE IF F.isTimestampLine
           THEN IOStatOnTimestamp(F)
           ELSE IF F.avgcpuPrefix /\ ioCurrent # None
           THEN IOStatOnCPUHeader(F)
           ELSE IF /\ expectingCPUStats
                   /\ ioCurrent # None
                   /\ ioCurrent[1].CPUStats = None
                   /\ ~F.DevicePrefix
                   /\ ~F.avgcpuPrefix
                   /\ ~F.isTimestampLine
           THEN IOStatOnCPURow(F)
           ELSE IF F.DevicePrefix
           THEN /\ inDeviceSection' = TRUE
                /\ IOStatContinue
                /\ UNCHANGED <<ioSnapshots, ioCurrent, systemInfo, expectingCPUStats>>
           ELSE IF inDeviceSection /\ ioCurrent # None
           THEN IOStatOnDeviceRow(F)
           ELSE /\ IOStatContinue
                /\ UNCHANGED <<ioSnapshots, ioCurrent, systemInfo, inDeviceSection,
                               expectingCPUStats>>

\* ParseIOStat, one iteration of `for scanner.Scan()`: the scanner delivers line i
ParseIOStatLine(i) ==
    /\ ioPc = "scan"
    /\ ioInput' = Append(ioInput, i)
    /\ lineNumber' = lineNumber + 1
    /\ UNCHANGED <<ttVars, dtVars, twVars, svVars>>
    /\ LET F == IOStatFacts[i]
       IN  IF F.empty
           THEN /\ IOStatContinue
                /\ UNCHANGED <<ioSnapshots, ioCurrent, systemInfo, inDeviceSection,
                               expectingCPUStats>>
           ELSE IF systemInfo = <<>> /\ F.containsLinux
           THEN /\ systemInfo' = F.line
                /\ IOStatContinue
                /\ UNCHANGED <<ioSnapshots, ioCurrent, inDeviceSection, expectingCPUStats>>
           ELSE IF F.isTimestampLine
           THEN IOStatOnTimestamp(F)
           ELSE IF F.avgcpuPrefix /\ ioCurrent # None
           THEN IOStatOnCPUHeader(F)
           ELSE IF /\ expectingCPUStats
                   /\ ioCurrent # None
                   /\ ioCurrent[1].CPUStats = None
                   /\ ~F.DevicePrefix
                   /\ ~F.avgcpuPrefix
                   /\ ~F.isTimestampLine
           THEN IOStatOnCPURow(F)
           ELSE IF F.DevicePrefix
           THEN /\ inDeviceSection' = TRUE
                /\ IOStatContinue
                /\ UNCHANGED <<ioSnapshots, ioCurrent, systemInfo, expectingCPUStats>>
           ELSE IF inDeviceSection /\ ioCurrent # None
           THEN IOStatOnDeviceRow(F)
           ELSE /\ IOStatContinue
                /\ UNCHANGED <<ioSnapshots, ioCurrent, systemInfo, inDeviceSection,
                               expectingCPUStats>>

\* IOStatValidateLast without the validation
IOStatValidateLast_Unchecked ==
    /\ ioSnapshots' = IF ioCurrent # None
                      THEN Append(ioSnapshots, ioCurrent[1])
                      ELSE ioSnapshots
    /\ IOStatReturn(Some([SystemInfo |-> systemInfo, Snapshots |-> ioSnapshots']), None)

\* ParseIOStat after the loop: "Validate the last snapshot" and return
IOStatValidateLast ==
    IF ioCurrent # None /\ expectingCPUStats
    THEN /\ IOStatReturn(None, IOStatError(lineNumber,
                "expected CPU statistics after timestamp, but reached end of file", 0, ""))
         /\ UNCHANGED ioSnapshots
    ELSE /\ ioSnapshots' = IF ioCurrent # None
                           THEN Append(ioSnapshots, ioCurrent[1])
                           ELSE ioSnapshots
         /\ IOStatReturn(Some([SystemInfo |-> systemInfo, Snapshots |-> ioSnapshots']),
                         None)

\* scanner.Scan() returns false: the content has ended, or its next line is longer
\* than bufio.MaxScanTokenSize (ParseIOStat does not read scanner.Err(), so both end
\* the loop alike and ioInput holds the lines that were delivered).  With no line
\* delivered this is also the `len(content) == 0` return.
ParseIOStatEnd ==
    /\ ioPc = "scan"
    /\ IOStatValidateLast
    /\ UNCHANGED <<ioInput, lineNumber, ioCurrent, systemInfo, inDeviceSection,
                   expectingCPUStats>>
    /\ UNCHANGED <<ttVars, dtVars, twVars, svVars>>

IOStatInit ==
    /\ ioInput = <<>>
    /\ lineNumber = 0
    /\ ioSnapshots = <<>>
    /\ ioCurrent = None
    /\ systemInfo = <<>>
    /\ inDeviceSection = FALSE
    /\ expectingCPUStats = FALSE
    /\ ioPc = "scan"
    /\ ioData = None
    /\ ioErr = None

\* ParseIOStat on every input of at most MaxIOLines lines of IOStatLines
IOStatNext ==
    \/ \E i \in IOStatLineNumbers : Len(ioInput) < MaxIOLines /\ ParseIOStatLine(i)
    \/ ParseIOStatEnd

\* the lines that make well-formed reports, and the ones that bend their frame
IOStatSeriesLines == {3, 4, 6, 7, 8, 11, 12, 13}

\* ParseIOStat on every input of at most MaxIOSeriesLines lines of IOStatSeriesLines
IOStatSeriesNext ==
    \/ \E i \in IOStatSeriesLines : Len(ioInput) < MaxIOSeriesLines /\ ParseIOStatLine(i)
    \/ ParseIOStatEnd

----------------------------------------------------------------------------
(* Input lines of ParseTTop *)

Str_top       == <<"t", "o", "p">>
Str_topPrefix == <<"t", "o", "p", " ", "-", " ">>
Str_Threads   == <<"T", "h", "r", "e", "a", "d", "s", ":">>
Str_MiBMem    == <<"M", "i", "B", " ", "M", "e", "m">>
Str_MiBSwap   == <<"M", "i", "B", " ", "S", "w", "a", "p">>
Str_MiBSwapC  == <<"M", "i", "B", " ", "S", "w", "a", "p", ":">>
Str_availMem  == <<"a", "v", "a", "i", "l", " ", "M", "e", "m">>
Str_total     == <<"t", "o", "t", "a", "l">>
Str_running   == <<"r", "u", "n", "n", "i", "n", "g">>
Str_sleeping  == <<"s", "l", "e", "e", "p", "i", "n", "g">>
Str_stopped   == <<"s", "t", "o", "p", "p", "e", "d">>
Str_zombie    == <<"z", "o", "m", "b", "i", "e">>
Str_free      == <<"f", "r", "e", "e">>
Str_used      == <<"u", "s", "e", "d">>
Str_buffcache == <<"b", "u", "f", "f", "/", "c", "a", "c", "h", "e">>
Str_up        == <<"u", "p">>
Str_dash      == <<"-">>
Str_clock3    == <<"1", "2", ":", "0", "2", ":", "0", "3">>
Str_clock4    == <<"1", "2", ":", "0", "2", ":", "0", "4">>
Str_noclock   == <<"1", ":", "2">>
Str_java      == <<"j", "a", "v", "a">>
Str_C2        == <<"C", "2">>
Str_Comp      == <<"C", "o", "m", "p">>
Str_PID       == <<"P", "I", "D">>
Str_997       == <<"9", "9", "7">>
Str_996       == <<"9", "9", "6">>
Str_9         == <<"9">>
Str_2         == <<"2">>
Str_0         == <<"0">>
Str_x         == <<"x">>
Str_S         == <<"S">>
Str_u         == <<"u">>
Str_3_5       == <<"3", ".", "5">>
Str_12_0      == <<"1", "2", ".", "0">>
Str_colon     == <<":">>
Str_dot       == <<".">>

\* "<count> <label>" pairs separated by ", "
Pairs(ps) == Join([k \in 1..Len(ps) |-> Words(ps[k])], <<",", " ">>)

\* the lines an input is made of; what each one exercises is said on the right
TTopLines == <<
    <<" ", " ">>,                                                \*  1 blank
    Words(<<Str_top, Str_dash, Str_clock3, Str_up>>),            \*  2 header
    <<" ">> \o Words(<<Str_top, Str_dash, Str_clock4, Str_up>>), \*  3 a later header
    Words(<<Str_top, Str_dash, Str_noclock, Str_up>>),           \*  4 header, no time
    Words(<<Str_top, Str_dash>>) \o <<" ">>,                     \*  5 `top -` alone
    Words(<<Str_Threads,
            Pairs(<<<<Str_9, Str_total>>, <<Str_2, Str_running>>, <<Str_7, Str_sleeping>>,
                    <<Str_0, Str_stopped>>, <<Str_0, Str_zombie>>>>)>>),
                                                                 \*  6 thread counts
    Words(<<Str_Threads,
            Pairs(<<<<Str_9, Str_total>>, <<Str_x, Str_running>>>>)>>),
                                                                 \*  7 thread counts, 2 parts
    Words(<<Str_Threads,
            Pairs(<<<<Str_9, Str_total>>, <<Str_x, Str_running>>, <<Str_7, Str_sleeping>>,
                    <<Str_stopped>>, <<Str_0, Str_zombie>>>>)>>),
                                                                 \*  8 thread counts, bad pairs
    Words(<<Str_MiBMem, Str_colon,
            Pairs(<<<<Str_97_20, Str_total>>, <<Str_2_36, Str_free>>, <<Str_3_5, Str_used>>,
                    <<Str_1_5, Str_buffcache>>>>)>>),            \*  9 memory
    Words(<<Str_MiBMem, Str_colon, Pairs(<<<<Str_7, Str_total>>>>)>>),
                                                                 \* 10 memory, 1 part
    Words(<<Str_MiBSwapC,
            Pairs(<<<<Str_1_5, Str_total>>, <<Str_0_00, Str_free>>,
                    <<Str_1_50, Str_used \o Str_dot>>>>),
            Str_12_0, Str_availMem>>),                           \* 11 swap
    Words(<<Str_MiBSwapC, Pairs(<<<<Str_7, Str_total \o Str_dot>>>>), Str_2_36,
            Str_availMem>>),                                     \* 12 swap, 1 part
    <<" ">> \o Words(<<Str_997, Str_u, Str_2, Str_0, Str_7, Str_7, Str_7, Str_S, Str_2_36,
                       Str_1_5, Str_7, Str_C2, Str_Comp>>),      \* 13 thread row
    Words(<<Str_996, Str_u, Str_2, Str_0, Str_7, Str_7, Str_7, Str_S, Str_x, Str_x,
            Str_7, Str_java>>),                                  \* 14 thread row, bad %CPU %MEM
    Words(<<Str_invalid, Str_7>>),                               \* 15 row, 2 fields
    Words(<<Str_PID, Str_u, Str_2, Str_0, Str_7, Str_7, Str_7, Str_S, Str_2_36, Str_1_5,
            Str_7, Str_java>>),                                  \* 16 row, PID not a number
    Words(<<Str_996, Str_u, Str_2, Str_0, Str_7, Str_7, Str_7, Str_S, Str_x, Str_1_5,
            Str_7, Str_java>>),                                  \* 17 thread row, bad %CPU
    Words(<<Str_996, Str_u, Str_2, Str_0, Str_7, Str_7, Str_7, Str_S, Str_2_36, Str_x,
            Str_7, Str_java, Str_dash, Str_x>>)                  \* 18 thread row, bad %MEM
>>

TTopLineNumbers == 1..Len(TTopLines)

\* the values time.Now() returns while ParseTTop runs
WallClock == <<
    [year |-> 2025, month |-> 1, day |-> 15, hour |-> 9, min |-> 30, sec |-> 0],
    [year |-> 2025, month |-> 1, day |-> 16, hour |-> 0, min |-> 0, sec |-> 1]
>>

----------------------------------------------------------------------------
(* internal/reporters/ttop_parser.go *)

\* parseTimestampFromTopLine, with the value now that its time.Now() returns
parseTimestampFromTopLine(line, now) ==
    LET parts == Fields(line)
        clock == IF Len(parts) < 3 THEN ParseClock(<<>>) ELSE ParseClock(parts[3])
    IN  IF Len(parts) < 3
        THEN [ok |-> FALSE, time |-> ZeroTime, err |-> "invalid top line format"]
        ELSE IF ~clock.ok
        THEN [ok |-> FALSE, time |-> ZeroTime, err |-> "failed to parse timestamp"]
        ELSE [ok |-> TRUE,
              time |-> [year |-> now.year, month |-> now.month, day |-> now.day,
                        hour |-> clock.hour, min |-> clock.min, sec |-> clock.sec],
              err |-> ""]

\* &ThreadCounts{}
NoThreadCounts == [Total |-> 0, Running |-> 0, Sleeping |-> 0, Stopped |-> 0, Zombie |-> 0]

\* the loop of parseThreadCountsLine over parts[k..]
RECURSIVE ThreadCountsFrom(_, _, _)
ThreadCountsFrom(parts, k, counts) ==
    IF k > Len(parts) THEN counts
    ELSE LET fields == Fields(TrimSpace(parts[k]))
             count  == IF Len(fields) < 2 THEN Atoi(<<>>) ELSE Atoi(fields[1])
             next   == IF Len(fields) < 2 \/ ~count.ok THEN counts
                       ELSE IF fields[2] = Str_total
                            THEN [counts EXCEPT !.Total = count.val]
                       ELSE IF fields[2] = Str_running
                            THEN [counts EXCEPT !.Running = count.val]
                       ELSE IF fields[2] = Str_sleeping
                            THEN [counts EXCEPT !.Sleeping = count.val]
                       ELSE IF fields[2] = Str_stopped
                            THEN [counts EXCEPT !.Stopped = count.val]
                       ELSE IF fields[2] = Str_zombie
                            THEN [counts EXCEPT !.Zombie = count.val]
                       ELSE counts
         IN  ThreadCountsFrom(parts, k + 1, next)

\* parseThreadCountsLine that fails on a part that is no `<count> <label>` pair
parseThreadCountsLine_Strict(line) ==
    LET rest  == TrimSpace(TrimPrefix(line, Str_Threads))
        parts == Split(rest, ",")
        Bad(part) == Len(Fields(part)) < 2 \/ ~Atoi(Fields(part \o Str_x)[1]).ok
    IN  IF Len(parts) # 5 \/ \E k \in 1..Len(parts) : Bad(parts[k])
        THEN [ok |-> FALSE, counts |-> None, err |-> "expected 5 thread count parts",
              arg |-> Len(parts)]
        ELSE [ok |-> TRUE, counts |-> Some(ThreadCountsFrom(parts, 1, NoThreadCounts)),
              err |-> "", arg |-> 0]

\* parseThreadCountsLine
parseThreadCountsLine(line) ==
    LET rest  == TrimSpace(TrimPrefix(line, Str_Threads))
        parts == Split(rest, ",")
    IN  IF Len(parts) # 5
        THEN [ok |-> FALSE, counts |-> None, err |-> "expected 5 thread count parts",
              arg |-> Len(parts)]
        ELSE [ok |-> TRUE, counts |-> Some(ThreadCountsFrom(parts, 1, NoThreadCounts)),
              err |-> "", arg |-> 0]

\* &SystemMemory{}
NoSystemMemory ==
    [MemTotal |-> <<0, 1>>, MemFree |-> <<0, 1>>, MemUsed |-> <<0, 1>>,
     MemBuffCache |-> <<0, 1>>, SwapTotal |-> <<0, 1>>, SwapFree |-> <<0, 1>>,
     SwapUsed |-> <<0, 1>>, MemAvail |-> <<0, 1>>]

\* the loop of parseMemoryLine over parts[k..]
RECURSIVE MemoryFrom(_, _, _)
MemoryFrom(parts, k, memory) ==
    IF k > Len(parts) THEN memory
    ELSE LET fields == Fields(TrimSpace(parts[k]))
             value  == IF Len(fields) < 2 THEN ParseFloat(<<>>) ELSE ParseFloat(fields[1])
             next   == IF Len(fields) < 2 \/ ~value.ok THEN memory
                       ELSE IF fields[2] = Str_total
                            THEN [memory EXCEPT !.MemTotal = value.val]
                       ELSE IF fields[2] = Str_free
                            THEN [memory EXCEPT !.MemFree = value.val]
                       ELSE IF fields[2] = Str_used
                            THEN [memory EXCEPT !.MemUsed = value.val]
                       ELSE IF fields[2] = Str_buffcache
                            THEN [memory EXCEPT !.MemBuffCache = value.val]
                       ELSE memory
         IN  MemoryFrom(parts, k + 1, next)

\* parseMemoryLine: the error it returns and what it leaves in *memory
parseMemoryLine(line, memory) ==
    LET rest  == TrimSpace(TrimPrefix(line, Str_MiBMem))
        body  == IF HasPrefix(rest, Str_colon)
                 THEN TrimSpace(TrimPrefix(rest, Str_colon))
                 ELSE rest
        parts == Split(body, ",")
    IN  IF Len(parts) # 4
        THEN [ok |-> FALSE, memory |-> memory, err |-> "expected 4 memory parts",
              arg |-> Len(parts)]
        ELSE [ok |-> TRUE, memory |-> MemoryFrom(parts, 1, memory), err |-> "", arg |-> 0]

\* the loop of parseSwapLine over parts[k..]
RECURSIVE SwapFrom(_, _, _)
SwapFrom(parts, k, memory) ==
    IF k > Len(parts) THEN memory
    ELSE LET fields    == Fields(TrimSpace(parts[k]))
             value     == IF Len(fields) < 2 THEN ParseFloat(<<>>) ELSE ParseFloat(fields[1])
             fieldType == IF Len(fields) < 2 THEN <<>> ELSE TrimSuffix(fields[2], Str_dot)
             next      == IF Len(fields) < 2 \/ ~value.ok THEN memory
                          ELSE IF fieldType = Str_total
                               THEN [memory EXCEPT !.SwapTotal = value.val]
                          ELSE IF fieldType = Str_free
                               THEN [memory EXCEPT !.SwapFree = value.val]
                          ELSE IF fieldType = Str_used
                               THEN [memory EXCEPT !.SwapUsed = value.val]
                          ELSE memory
         IN  SwapFrom(parts, k + 1, next)

\* parseSwapLine: the error it returns and what it leaves in *memory
parseSwapLine(line, memory) ==
    LET rest        == TrimSpace(TrimPrefix(line, Str_MiBSwapC))
        availIndex  == Index(rest, Str_availMem)
        beforeAvail == SubSeq(rest, 1, availIndex - 1)
        fields      == Fields(beforeAvail)
        availValue  == fields[Len(fields)]
        avail       == ParseFloat(availValue)
        withAvail   == IF availIndex # 0 /\ Len(fields) > 0 /\ avail.ok
                       THEN [memory EXCEPT !.MemAvail = avail.val]
                       ELSE memory
        swapPart    == IF availIndex = 0 THEN rest
                       ELSE IF Len(fields) > 0
                            THEN TrimSpace(TrimSuffix(beforeAvail, availValue))
                            ELSE <<>>
        parts       == Split(TrimSpace(TrimSuffix(swapPart, Str_dot)), ",")
    IN  IF Len(parts) # 3
        THEN [ok |-> FALSE, memory |-> withAvail, err |-> "expected 3 swap parts",
              arg |-> Len(parts)]
        ELSE [ok |-> TRUE, memory |-> SwapFrom(parts, 1, withAvail), err |-> "", arg |-> 0]

\* ThreadInfo{}
NoThreadInfo == [PID |-> 0, User |-> <<>>, CPU |-> <<0, 1>>, MEM |-> <<0, 1>>,
                 Command |-> <<>>]

\* parseThreadLine that takes 0.0 for both numbers when one of them cannot be parsed
parseThreadLine_BothOrNone(line) ==
    LET fields == Fields(line)
        pid    == Atoi(fields[1])
        cpu    == ParseFloat(fields[9])
        mem    == ParseFloat(fields[10])
    IN  IF Len(fields) < 12
        THEN [ok |-> FALSE, info |-> NoThreadInfo,
              err |-> "insufficient fields in thread line"]
        ELSE IF ~pid.ok
        THEN [ok |-> FALSE, info |-> NoThreadInfo, err |-> "invalid PID"]
        ELSE [ok |-> TRUE,
              info |-> [PID     |-> pid.val,
                        User    |-> fields[2],
                        CPU     |-> IF cpu.ok /\ mem.ok THEN cpu.val ELSE <<0, 1>>,
                        MEM     |-> IF cpu.ok /\ mem.ok THEN mem.val ELSE <<0, 1>>,
                        Command |-> Join(SubSeq(fields, 12, Len(fields)), Str_SP)],
              err |-> ""]

\* parseThreadLine
parseThreadLine(line) ==
    LET fields == Fields(line)
        pid    == Atoi(fields[1])
        cpu    == ParseFloat(fields[9])
        mem    == ParseFloat(fields[10])
    IN  IF Len(fields) < 12
        THEN [ok |-> FALSE, info |-> NoThreadInfo,
              err |-> "insufficient fields in thread line"]
        ELSE IF ~pid.ok
        THEN [ok |-> FALSE, info |-> NoThreadInfo, err |-> "invalid PID"]
        ELSE [ok |-> TRUE,
              info |-> [PID     |-> pid.val,
                        User    |-> fields[2],
                        CPU     |-> IF cpu.ok THEN cpu.val ELSE <<0, 1>>,
                        MEM     |-> IF mem.ok THEN mem.val ELSE <<0, 1>>,
                        Command |-> Join(SubSeq(fields, 12, Len(fields)), Str_SP)],
              err |-> ""]

\* What the loop body of ParseTTop computes from one line, before it looks at its own
\* variables: line is strings.TrimSpace(scanner.Text()).
TTopLineFacts(raw) ==
    LET line == TrimSpace(raw)
    IN  [line          |-> line,
         empty         |-> line = <<>>,
         topPrefix     |-> HasPrefix(line, Str_topPrefix),
         timestamp     |-> [n \in DOMAIN WallClock |->
                               parseTimestampFromTopLine(line, WallClock[n])],
         ThreadsPrefix |-> HasPrefix(line, Str_Threads),
         threadCounts  |-> parseThreadCountsLine(line),
         MiBMemPrefix  |-> HasPrefix(line, Str_MiBMem),
         MiBSwapPrefix |-> HasPrefix(line, Str_MiBSwap),
         threadInfo    |-> parseThreadLine(line)]

\* one evaluation per line of TTopLines
TTopFacts == <<>> \o [i \in TTopLineNumbers |-> TTopLineFacts(TTopLines[i])]

\* continue, or the end of the loop body
TTopContinue == UNCHANGED <<ttScanErr, ttPc, ttData, ttErr>>

\* TTopOnHeader that lets the new snapshot replace the open one
TTopOnHeader_DropOpen(F, n) ==
    /\ ttSnapshots' = ttSnapshots
    /\ ttCurrent' = Some([Timestamp    |-> IF F.timestamp[n].ok
                                           THEN F.timestamp[n].time
                                           ELSE WallClock[n],
                          ThreadCounts |-> None,
                          SystemMemory |-> None,
                          Threads      |-> <<>>])
    /\ TTopContinue

\* TTopOnHeader that keeps the time parseTimestampFromTopLine returns with its error
TTopOnHeader_NoFallback(F, n) ==
    /\ ttSnapshots' = IF ttCurrent # None
                      THEN Append(ttSnapshots, ttCurrent[1])
                      ELSE ttSnapshots
    /\ ttCurrent' = Some([Timestamp    |-> F.timestamp[n].time,
                          ThreadCounts |-> None,
                          SystemMemory |-> None,
                          Threads      |-> <<>>])
    /\ TTopContinue

\* TTopOnHeader that stamps every snapshot with the time of the call
TTopOnHeader_ClockOfCall(F, n) ==
    /\ ttSnapshots' = IF ttCurrent # None
                      THEN Append(ttSnapshots, ttCurrent[1])
                      ELSE ttSnapshots
    /\ ttCurrent' = Some([Timestamp    |-> WallClock[n],
                          ThreadCounts |-> None,
                          SystemMemory |-> None,
                          Threads      |-> <<>>])
    /\ TTopContinue

\* ParseTTop, "Check if this line starts a new snapshot"; time.Now() returns WallClock[n]
TTopOnHeader(F, n) ==
    /\ ttSnapshots' = IF ttCurrent # None
                      THEN Append(ttSnapshots, ttCurrent[1])
                      ELSE ttSnapshots
    /\ ttCurrent' = Some([Timestamp    |-> IF F.timestamp[n].ok
                                           THEN F.timestamp[n].time
                                           ELSE WallClock[n],
                          ThreadCounts |-> None,
                          SystemMemory |-> None,
                          Threads      |-> <<>>])
    /\ TTopContinue

\* TTopOnThreadCounts that returns the error of parseThreadCountsLine
TTopOnThreadCounts_Strict(F) ==
    IF F.threadCounts.ok
    THEN /\ ttCurrent' = Some([ttCurrent[1] EXCEPT
                                  !.ThreadCounts = F.threadCounts.counts])
         /\ TTopContinue
         /\ UNCHANGED ttSnapshots
    ELSE /\ ttPc' = "done"
         /\ ttData' = None
         /\ ttErr' = Some([msg |-> F.threadCounts.err, cause |-> ""])
         /\ UNCHANGED <<ttSnapshots, ttCurrent, ttScanErr>>

\* ParseTTop, "Check if this line contains thread counts"
TTopOnThreadCounts(F) ==
    /\ ttCurrent' = IF F.threadCounts.ok
                    THEN Some([ttCurrent[1] EXCEPT !.ThreadCounts = F.threadCounts.counts])
                    ELSE ttCurrent
    /\ TTopContinue
    /\ UNCHANGED ttSnapshots

\* currentSnapshot.SystemMemory, made if it is nil
TTopSystemMemory ==
    IF ttCurrent[1].SystemMemory = None THEN NoSystemMemory ELSE ttCurrent[1].SystemMemory[1]

\* ParseTTop, "Check if this line contains memory information"
TTopOnMemory(F) ==
    /\ ttCurrent' = Some([ttCurrent[1] EXCEPT !.SystemMemory =
                              Some(parseMemoryLine(F.line, TTopSystemMemory).memory)])
    /\ TTopContinue
    /\ UNCHANGED ttSnapshots

\* ParseTTop, "Check if this line contains swap information"
TTopOnSwap(F) ==
    /\ ttCurrent' = Some([ttCurrent[1] EXCEPT !.SystemMemory =
                              Some(parseSwapLine(F.line, TTopSystemMemory).memory)])
    /\ TTopContinue
    /\ UNCHANGED ttSnapshots

\* ParseTTop, "If we're in a snapshot, try to parse thread information"
TTopOnThreadRow(F) ==
    /\ ttCurrent' = IF F.threadInfo.ok
                    THEN Some([ttCurrent[1] EXCEPT !.Threads = Append(@, F.threadInfo.info)])
                    ELSE ttCurrent
    /\ TTopContinue
    /\ UNCHANGED ttSnapshots

\* ParseTTop, one iteration of `for scanner.Scan()`: the scanner delivers line i
ParseTTopLine(i) ==
    /\ ttPc = "scan"
    /\ ttInput' = Append(ttInput, i)
    /\ UNCHANGED <<ioVars, dtVars, twVars, svVars>>
    /\ LET F == TTopFacts[i]
       IN  IF F.empty
           THEN /\ TTopContinue
                /\ UNCHANGED <<ttSnapshots, ttCurrent>>
           ELSE IF F.topPrefix
           THEN \E n \in DOMAIN WallClock : TTopOnHeader(F, n)
           ELSE IF F.ThreadsPrefix /\ ttCurrent # None
           THEN TTopOnThreadCounts(F)
           ELSE IF F.MiBMemPrefix /\ ttCurrent # None
           THEN TTopOnMemory(F)
           ELSE IF F.MiBSwapPrefix /\ ttCurrent # None
           THEN TTopOnSwap(F)
           ELSE IF ttCurrent # None
           THEN TTopOnThreadRow(F)
           ELSE /\ TTopContinue
                /\ UNCHANGED <<ttSnapshots, ttCurrent>>

\* ParseTTop after the loop: "Don't forget to add the last snapshot", scanner.Err(),
\* return.  The error is fmt.Errorf("error reading ttop content: %w", err).
TTopReturn ==
    /\ ttSnapshots' = IF ttCurrent # None
                      THEN Append(ttSnapshots, ttCurrent[1])
                      ELSE ttSnapshots
    /\ ttPc' = "done"
    /\ IF ttScanErr' # None
       THEN /\ ttData' = None
            /\ ttErr' = Some([msg |-> "error reading ttop content", cause |-> ttScanErr'[1]])
       ELSE /\ ttData' = Some([Snapshots |-> ttSnapshots'])
            /\ ttErr' = None

\* scanner.Scan() returns false at the end of the content.  With no line delivered
\* this is also the `len(content) == 0` return.
ParseTTopEnd ==
    /\ ttPc = "scan"
    /\ ttScanErr' = None
    /\ TTopReturn
    /\ UNCHANGED <<ttInput, ttCurrent>>
    /\ UNCHANGED <<ioVars, dtVars, twVars, svVars>>

\* scanner.Scan() returns false because the next line is longer than
\* bufio.MaxScanTokenSize, and scanner.Err() is bufio.ErrTooLong
ParseTTopTooLong ==
    /\ ttPc = "scan"
    /\ ttScanErr' = Some("bufio.Scanner: token too long")
    /\ TTopReturn
    /\ UNCHANGED <<ttInput, ttCurrent>>
    /\ UNCHANGED <<ioVars, dtVars, twVars, svVars>>

TTopInit ==
    /\ ttInput = <<>>
    /\ ttSnapshots = <<>>
    /\ ttCurrent = None
    /\ ttScanErr = None
    /\ ttPc = "scan"
    /\ ttData = None
    /\ ttErr = None

\* ParseTTop on every input of at most MaxTTopLines lines of TTopLines
TTopNext ==
    \/ \E i \in TTopLineNumbers : Len(ttInput) < MaxTTopLines /\ ParseTTopLine(i)
    \/ ParseTTopEnd
    \/ ParseTTopTooLong

\* the lines that make snapshots and rows, and the ones that look like them
TTopSeriesLines == {2, 3, 4, 5, 6, 13, 14, 15}

\* ParseTTop on every input of at most MaxTTopSeriesLines lines of TTopSeriesLines
TTopSeriesNext ==
    \/ \E i \in TTopSeriesLines : Len(ttInput) < MaxTTopSeriesLines /\ ParseTTopLine(i)
    \/ ParseTTopEnd
    \/ ParseTTopTooLong

\* a header and the lines that are thread rows or look like them
TTopRowLines == {2, 6, 13, 14, 15, 16, 17, 18}

\* ParseTTop on every input of at most MaxTTopRowLines lines of TTopRowLines
TTopRowNext ==
    \/ \E i \in TTopRowLines : Len(ttInput) < MaxTTopRowLines /\ ParseTTopLine(i)
    \/ ParseTTopEnd
    \/ ParseTTopTooLong

----------------------------------------------------------------------------
(* package path/filepath, strings.ToLower *)

UpperCase == <<"A", "B", "C", "D", "E", "F", "G", "H", "I", "J", "K", "L", "M",
               "N", "O", "P", "Q", "R", "S", "T", "U", "V", "W", "X", "Y", "Z">>

LowerCase == <<"a", "b", "c", "d", "e", "f", "g", "h", "i", "j", "k", "l", "m",
               "n", "o", "p", "q", "r", "s", "t", "u", "v", "w", "x", "y", "z">>

\* strings.ToLower
ToLower(s) ==
    [k \in 1..Len(s) |->
        IF \E u \in 1..Len(UpperCase) : UpperCase[u] = s[k]
        THEN LowerCase[CHOOSE u \in 1..Len(UpperCase) : UpperCase[u] = s[k]]
        ELSE s[k]]

\* the place of the last c in s, 0 if there is none
LastIndex(s, c) ==
    LET hits == {k \in 1..Len(s) : s[k] = c}
    IN  IF hits = {} THEN 0 ELSE CHOOSE k \in hits : \A j \in hits : j <= k

\* filepath.Ext: the suffix from the last dot of the last element of the path
Ext(path) ==
    LET dot == LastIndex(path, ".")
    IN  IF dot > LastIndex(path, "/") THEN SubSeq(path, dot, Len(path)) ELSE <<>>

\* path without its trailing slashes
RECURSIVE StripSlashes(_)
StripSlashes(path) ==
    IF path # <<>> /\ path[Len(path)] = "/"
    THEN StripSlashes(SubSeq(path, 1, Len(path) - 1))
    ELSE path

\* filepath.Base: the last element of the path
Base(path) ==
    LET p == StripSlashes(path)
    IN  IF path = <<>> THEN <<".">>
        ELSE IF p = <<>> THEN <<"/">>
        ELSE SubSeq(p, LastIndex(p, "/") + 1, Len(p))

----------------------------------------------------------------------------
(* internal/detector/detector.go *)

FileTypeJFR     == "jfr"
FileTypeTTop    == "ttop"
FileTypeIOStat  == "iostat"
FileTypeArchive == "archive"
FileTypeUnknown == "unknown"

Str_dotjfr   == <<".", "j", "f", "r">>
Str_dottxt   == <<".", "t", "x", "t">>
Str_dotzip   == <<".", "z", "i", "p">>
Str_dottar   == <<".", "t", "a", "r">>
Str_dottargz == <<".", "t", "a", "r", ".", "g", "z">>
Str_dottgz   == <<".", "t", "g", "z">>
Str_dotgz    == <<".", "g", "z">>
Str_ttop     == <<"t", "t", "o", "p">>
Str_iostat   == <<"i", "o", "s", "t", "a", "t">>
Str_USER     == <<"U", "S", "E", "R">>
Str_TIME     == <<"T", "I", "M", "E">>
Str_pctCPU   == <<"%", "C", "P", "U">>
Str_tps      == <<"t", "p", "s">>
Str_kBreads  == <<"k", "B", "_", "r", "e", "a", "d", "/", "s">>

\* the number of bytes of the content that isTTopFile and isIOStatFile look at
SniffLimit == 1000

\* isArchive
isArchive(ext) ==
    ext \in {Str_dotzip, Str_dottar, Str_dottargz, Str_dottgz, Str_dotgz}

\* detectFileTypeByName that compares the name as it is written
detectFileTypeByName_AsWritten(filename) ==
    LET ext      == Ext(filename)
        baseName == Base(filename)
    IN  IF ext = Str_dotjfr THEN FileTypeJFR
        ELSE IF Contains(baseName, Str_ttop) /\ (ext = Str_dottxt \/ ext = <<>>)
        THEN FileTypeTTop
        ELSE IF Contains(baseName, Str_iostat) THEN FileTypeIOStat
        ELSE FileTypeUnknown

\* detectFileTypeByName
detectFileTypeByName(filename) ==
    LET ext      == ToLower(Ext(filename))
        baseName == ToLower(Base(filename))
    IN  IF ext = Str_dotjfr THEN FileTypeJFR
        ELSE IF Contains(baseName, Str_ttop) /\ (ext = Str_dottxt \/ ext = <<>>)
        THEN FileTypeTTop
        ELSE IF Contains(baseName, Str_iostat) THEN FileTypeIOStat
        ELSE FileTypeUnknown

\* analyzeFileList that returns the most common type
analyzeFileList_MostCommon(files) ==
    LET Count_(t) == Cardinality({k \in 1..Len(files) : detectFileTypeByName(files[k]) = t})
        jfrCount    == Count_(FileTypeJFR)
        ttopCount   == Count_(FileTypeTTop)
        iostatCount == Count_(FileTypeIOStat)
    IN  IF jfrCount > 0 /\ jfrCount >= ttopCount /\ jfrCount >= iostatCount
        THEN FileTypeJFR
        ELSE IF ttopCount > 0 /\ ttopCount >= iostatCount THEN FileTypeTTop
        ELSE IF iostatCount > 0 THEN FileTypeIOStat
        ELSE FileTypeArchive

\* analyzeFileList
analyzeFileList(files) ==
    LET Count_(t) == Cardinality({k \in 1..Len(files) : detectFileTypeByName(files[k]) = t})
        jfrCount    == Count_(FileTypeJFR)
        ttopCount   == Count_(FileTypeTTop)
        iostatCount == Count_(FileTypeIOStat)
    IN  IF jfrCount > 0 THEN FileTypeJFR
        ELSE IF ttopCount > 0 THEN FileTypeTTop
        ELSE IF iostatCount > 0 THEN FileTypeIOStat
        ELSE FileTypeArchive

\* the names of a sequence of archive entries
NamesOf(entries) == [k \in 1..Len(entries) |-> entries[k].Name]

\* extractZipFileList: content.zip is what zip.NewReader finds in the bytes, None
\* when it returns an error, else the entries of the central directory
extractZipFileList(content) ==
    LET NotDir(file) == file.Type # "dir"
    IN  IF content.zip = None THEN <<>> ELSE NamesOf(SelectSeq(content.zip[1], NotDir))

\* readTarFiles: entries are the headers tarReader.Next() returns before its first
\* error (io.EOF, or a header that cannot be read)
readTarFiles(entries) ==
    LET TypeReg(header) == header.Type = "reg"
    IN  NamesOf(SelectSeq(entries, TypeReg))

\* extractTarFileList: content.gzip is what gzip.NewReader finds in the bytes, None
\* when it returns an error, else the headers of the tar stream inside; content.tar
\* are the headers of the bytes read as a plain tar stream.  Seek on a bytes.Reader
\* does not fail.
extractTarFileList(content) ==
    IF content.gzip # None THEN readTarFiles(content.gzip[1]) ELSE readTarFiles(content.tar)

\* detectArchiveContent that gives up on bytes no archive reader can read
detectArchiveContent_GivingUp(content) ==
    IF Len(extractZipFileList(content)) > 0
    THEN analyzeFileList(extractZipFileList(content))
    ELSE IF Len(extractTarFileList(content)) > 0
    THEN analyzeFileList(extractTarFileList(content))
    ELSE FileTypeUnknown

\* detectArchiveContent
detectArchiveContent(content) ==
    IF Len(extractZipFileList(content)) > 0
    THEN analyzeFileList(extractZipFileList(content))
    ELSE IF Len(extractTarFileList(content)) > 0
    THEN analyzeFileList(extractTarFileList(content))
    ELSE FileTypeArchive

\* min
min(a, b) == IF a < b THEN a ELSE b

\* isTTopFile that looks at every byte of the content
isTTopFile_WholeContent(content) ==
    /\ Contains(content.raw, Str_PID)
    /\ Contains(content.raw, Str_USER)
    /\ Contains(content.raw, Str_TIME) \/ Contains(content.raw, Str_pctCPU)

\* isTTopFile
isTTopFile(content) ==
    LET contentStr == SubSeq(content.raw, 1, min(SniffLimit, Len(content.raw)))
    IN  /\ Contains(contentStr, Str_PID)
        /\ Contains(contentStr, Str_USER)
        /\ Contains(contentStr, Str_TIME) \/ Contains(contentStr, Str_pctCPU)

\* isIOStatFile
isIOStatFile(content) ==
    LET contentStr == SubSeq(content.raw, 1, min(SniffLimit, Len(content.raw)))
    IN  /\ Contains(contentStr, Str_Device)
        /\ \/ Contains(contentStr, Str_tps)
           \/ Contains(contentStr, Str_kBreads)
           \/ Contains(contentStr, Str_rps)

\* DetectFileType that looks at the extension .jfr before the content
DetectFileType_JFRFirst(filename, content) ==
    LET ext      == ToLower(Ext(filename))
        baseName == ToLower(Base(filename))
    IN  IF isArchive(ext) THEN detectArchiveContent(content)
        ELSE IF ext = Str_dotjfr THEN FileTypeJFR
        ELSE IF Len(content.raw) > 0 /\ isTTopFile(content) THEN FileTypeTTop
        ELSE IF Len(content.raw) > 0 /\ isIOStatFile(content) THEN FileTypeIOStat
        ELSE IF Contains(baseName, Str_ttop) /\ (ext = Str_dottxt \/ ext = <<>>)
        THEN FileTypeTTop
        ELSE IF Contains(baseName, Str_iostat) THEN FileTypeIOStat
        ELSE FileTypeUnknown

\* DetectFileType
DetectFileType(filename, content) ==
    LET ext      == ToLower(Ext(filename))
        baseName == ToLower(Base(filename))
    IN  IF isArchive(ext) THEN detectArchiveContent(content)
        ELSE IF Len(content.raw) > 0 /\ isTTopFile(content) THEN FileTypeTTop
        ELSE IF Len(content.raw) > 0 /\ isIOStatFile(content) THEN FileTypeIOStat
        ELSE IF ext = Str_dotjfr THEN FileTypeJFR
        ELSE IF Contains(baseName, Str_ttop) /\ (ext = Str_dottxt \/ ext = <<>>)
        THEN FileTypeTTop
        ELSE IF Contains(baseName, Str_iostat) THEN FileTypeIOStat
        ELSE FileTypeUnknown

----------------------------------------------------------------------------
(* Inputs of DetectFileType *)
Str_ttopText   == Words(<<Str_PID, Str_USER, Str_TIME>>)
Str_iostatText == Words(<<Str_Device, Str_rps>>)
Str_hello      == <<"h", "e", "l", "l", "o">>

\* an archive entry: its name, what it is (a regular file, a directory, a symbolic
\* link) and its bytes
Entry(name, type, data) == [Name |-> name, Type |-> type, Data |-> data]

Name_p_jfr           == <<"p", ".", "j", "f", "r">>
Name_d_ttop          == <<"d", "/", "t", "t", "o", "p">>
Name_iostat_txt      == <<"i", "o", "s", "t", "a", "t", ".", "t", "x", "t">>
Name_iostat_log      == <<"i", "o", "s", "t", "a", "t", ".", "l", "o", "g">>
Name_P_JFR           == <<"P", ".", "J", "F", "R">>
Name_readme_txt      == <<"r", "e", "a", "d", "m", "e", ".", "t", "x", "t">>
Name_x_jfr_dir       == <<"x", ".", "j", "f", "r", "/">>
Name_ttop_log        == <<"t", "t", "o", "p", ".", "l", "o", "g">>
Name_ttop_iostat_log == <<"t", "t", "o", "p", "_", "i", "o", "s", "t", "a", "t", ".",
                         "l", "o", "g">>
Name_d_jfr_f         == <<"d", ".", "j", "f", "r", "/", "f">>
Name_Ttop_TXT        == <<"T", "t", "o", "p", ".", "T", "X", "T">>
Name_iostat_jfr      == <<"i", "o", "s", "t", "a", "t", ".", "j", "f", "r">>
Name_IOstat          == <<"I", "O", "s", "t", "a", "t">>

\* the entries an archive is made of; what each list exercises is said above it
EntryLists == <<
    \*  1 no entry
    <<>>,
    \*  2 one jfr file
    <<Entry(Name_p_jfr, "reg", Str_hello)>>,
    \*  3 one ttop file, two iostat files
    <<Entry(Name_d_ttop, "reg", Str_iostatText),
      Entry(Name_iostat_txt, "reg", Str_hello),
      Entry(Name_iostat_log, "reg", Str_hello)>>,
    \*  4 two iostat files, one jfr file
    <<Entry(Name_iostat_txt, "reg", Str_hello),
      Entry(Name_P_JFR, "reg", Str_hello),
      Entry(Name_iostat_log, "reg", Str_hello)>>,
    \*  5 a file with ttop bytes and no telling name
    <<Entry(Name_readme_txt, "reg", Str_ttopText)>>,
    \*  6 a directory with a jfr name
    <<Entry(Name_x_jfr_dir, "dir", <<>>),
      Entry(Name_readme_txt, "reg", Str_hello)>>,
    \*  7 a symbolic link with a jfr name
    <<Entry(Name_p_jfr, "link", <<>>)>>,
    \*  8 a symbolic link with a ttop name, an iostat file
    <<Entry(Str_ttop, "link", <<>>),
      Entry(Name_iostat_txt, "reg", Str_hello)>>,
    \*  9 `ttop` with another extension, an iostat file
    <<Entry(Name_ttop_log, "reg", Str_hello),
      Entry(Name_ttop_iostat_log, "reg", Str_hello)>>,
    \* 10 a file in a directory with a jfr name
    <<Entry(Name_d_jfr_f, "reg", Str_hello)>>,
    \* 11 one jfr file, upper case
    <<Entry(Name_P_JFR, "reg", Str_hello)>>,
    \* 12 one ttop file, mixed case
    <<Entry(Name_Ttop_TXT, "reg", Str_hello)>>,
    \* 13 one iostat file, mixed case, no extension
    <<Entry(Name_IOstat, "reg", Str_hello)>>,
    \* 14 one jfr file with `iostat` in the name
    <<Entry(Name_iostat_jfr, "reg", Str_hello)>>,
    \* 15 one file with `ttop` and `iostat` in the name and another extension
    <<Entry(Name_ttop_iostat_log, "reg", Str_hello)>>,
    \* 16 one file with `ttop` in the name and another extension
    <<Entry(Name_ttop_log, "reg", Str_hello)>>
>>

\* the bytes of an archive that stores its entries as they are: a signature, then the
\* name and the bytes of each entry
RECURSIVE StoredBytes(_)
StoredBytes(entries) ==
    IF entries = <<>> THEN <<>>
    ELSE Head(entries).Name \o Str_SP \o Head(entries).Data \o Str_SP
             \o StoredBytes(Tail(entries))

\* a ZIP archive
ZipOf(entries) ==
    [raw |-> <<"P", "K">> \o StoredBytes(entries), zip |-> Some(entries), gzip |-> None,
     tar |-> <<>>]

\* a ZIP archive cut off before its central directory
CutZipOf(entries) ==
    [raw |-> <<"P", "K">> \o StoredBytes(entries), zip |-> None, gzip |-> None,
     tar |-> <<>>]

\* a plain TAR archive
TarOf(entries) ==
    [raw |-> StoredBytes(entries), zip |-> None, gzip |-> None, tar |-> entries]

\* a gzip-wrapped TAR archive; with no entry, also a gzip file that holds no TAR archive
TarGzOf(entries) ==
    [raw |-> <<"\\x1f", "\\x8b">>, zip |-> None, gzip |-> Some(entries), tar |-> <<>>]

\* a file that is no archive
TextOf(text) == [raw |-> text, zip |-> None, gzip |-> None, tar |-> <<>>]

\* n bytes that are part of no word the heuristics look for
Filler(n) == [k \in 1..n |-> "x"]

\* texts around the first SniffLimit bytes: every word the heuristics look for, words
\* that are missing, and words that end at, straddle or follow byte SniffLimit
DetectTexts == {
    Words(<<Str_PID, Str_USER, Str_pctCPU>>),
    Words(<<Str_PID, Str_USER>>),
    Words(<<Str_USER, Str_TIME>>),
    Words(<<Str_Device, Str_tps>>),
    Words(<<Str_Device, Str_kBreads>>),
    Str_Device,
    Words(<<Str_iostatText, Str_ttopText>>),
    Filler(SniffLimit - Len(Str_ttopText)) \o Str_ttopText,
    Filler(SniffLimit - 2) \o Str_ttopText,
    Filler(SniffLimit) \o Str_ttopText,
    Filler(SniffLimit - Len(Str_iostatText)) \o Str_iostatText,
    Filler(SniffLimit - Len(Str_iostatText) + 1) \o Str_iostatText,
    Filler(SniffLimit) \o Str_iostatText,
    Str_iostatText \o Filler(SniffLimit) \o Str_ttopText,
    Str_hello \o Filler(SniffLimit) \o Str_ttopText \o Str_SP \o Str_iostatText
}

\* the contents given to DetectFileType
DetectContents ==
    {ZipOf(EntryLists[k]) : k \in 1..Len(EntryLists)}
        \cup {TarOf(EntryLists[k]) : k \in 1..Len(EntryLists)}
        \cup {TarGzOf(EntryLists[k]) : k \in 1..Len(EntryLists)}
        \cup {CutZipOf(EntryLists[2]), CutZipOf(EntryLists[5])}
        \cup {TextOf(<<>>), TextOf(Str_ttopText), TextOf(Str_iostatText), TextOf(Str_hello)}
        \cup {TextOf(text) : text \in DetectTexts}

\* the file names given to DetectFileType
DetectFilenames == {
    <<"a", ".", "z", "i", "p">>,                                  \* zip
    <<"A", ".", "Z", "I", "P">>,                                  \* zip, upper case
    <<"i", "o", "s", "t", "a", "t", ".", "t", "a", "r">>,         \* tar, `iostat` in the name
    <<"t", "t", "o", "p", ".", "t", "g", "z">>,                   \* tgz, `ttop` in the name
    <<"a", ".", "t", "a", "r", ".", "g", "z">>,                   \* gzip-wrapped tar
    <<"x", ".", "j", "f", "r", ".", "g", "z">>,                   \* gz after .jfr
    <<"x", ".", "j", "f", "r">>,                                  \* jfr
    <<"t", "t", "o", "p", ".", "t", "x", "t">>,                   \* ttop by name
    <<"i", "o", "s", "t", "a", "t", ".", "l", "o", "g">>,         \* iostat by name
    <<"a", ".", "t", "x", "t">>,                                  \* nothing in the name
    <<"t", "t", "o", "p">>,                                       \* no extension
    <<"a", ".", "z", "i", "p", "/", "t", "t", "o", "p">>,         \* archive extension in a directory name
    Name_P_JFR,                                                   \* jfr, upper case
    Name_Ttop_TXT,                                                \* ttop by name, mixed case
    Name_IOstat,                                                  \* iostat by name, mixed case
    Name_iostat_jfr,                                              \* jfr, `iostat` in the name
    Name_ttop_log,                                                \* `ttop` with another extension
    Name_ttop_iostat_log,                                         \* the same, `iostat` in the name
    <<"t", "t", "o", "p", "_", "i", "o", "s", "t", "a", "t">>     \* `ttop` and `iostat` in the name
}

\* DetectFileType(filename, content) is called and returns
DetectFileTypeCall(filename, content) ==
    /\ dtPc = "idle"
    /\ dtFilename' = filename
    /\ dtContent' = content
    /\ dtResult' = DetectFileType(filename, content)
    /\ dtPc' = "done"
    /\ UNCHANGED <<ioVars, ttVars, twVars, svVars>>

DetectInit ==
    /\ dtFilename = <<>>
    /\ dtContent = TextOf(<<>>)
    /\ dtResult = ""
    /\ dtPc = "idle"

\* DetectFileType on every file name of DetectFilenames with every content of
\* DetectContents
DetectNext ==
    \E filename \in DetectFilenames, content \in DetectContents :
        DetectFileTypeCall(filename, content)

----------------------------------------------------------------------------
(* A caller that gives the same bytes to a parser twice, as GenerateTTopReport and  *)
(* GenerateIOStatReport do when a second report is made for a file                  *)

\* the first call of ParseTTop has returned: the caller keeps what it returned and
\* calls ParseTTop again, which starts from `var snapshots`, `var currentSnapshot`
ParseTTopAgain ==
    /\ ttPc = "done"
    /\ ttFirst = None
    /\ ttFirst' = Some([input |-> ttInput, scanErr |-> ttScanErr,
                        data |-> ttData, err |-> ttErr])
    /\ ttInput' = <<>>
    /\ ttSnapshots' = <<>>
    /\ ttCurrent' = None
    /\ ttScanErr' = None
    /\ ttPc' = "scan"
    /\ ttData' = None
    /\ ttErr' = None
    /\ UNCHANGED <<ioVars, dtVars, ioFirst, svVars>>

\* the scanner of the second call delivers what the scanner of the first delivered:
\* the bytes are the same
TTopSameBytes(i) ==
    ttFirst # None =>
        /\ Len(ttInput) < Len(ttFirst[1].input)
        /\ i = ttFirst[1].input[Len(ttInput) + 1]

\* the scanner of the second call stops where, and as, the scanner of the first did
TTopSameEnd(scanErr) ==
    ttFirst # None =>
        /\ Len(ttInput) = Len(ttFirst[1].input)
        /\ ttFirst[1].scanErr = scanErr

\* the first call of ParseIOStat has returned: the caller keeps what it returned and
\* calls ParseIOStat again, which starts from its `var` block
ParseIOStatAgain ==
    /\ ioPc = "done"
    /\ ioFirst = None
    /\ ioFirst' = Some([input |-> ioInput, data |-> ioData, err |-> ioErr])
    /\ ioInput' = <<>>
    /\ lineNumber' = 0
    /\ ioSnapshots' = <<>>
    /\ ioCurrent' = None
    /\ systemInfo' = <<>>
    /\ inDeviceSection' = FALSE
    /\ expectingCPUStats' = FALSE
    /\ ioPc' = "scan"
    /\ ioData' = None
    /\ ioErr' = None
    /\ UNCHANGED <<ttVars, dtVars, ttFirst, svVars>>

\* the second call of ParseIOStat reads the lines the first call read; a first call
\* that failed at a line has read the input up to that line only
IOStatSameBytes(i) ==
    ioFirst # None =>
        /\ Len(ioInput) < Len(ioFirst[1].input)
        /\ i = ioFirst[1].input[Len(ioInput) + 1]

\* the input of the second call ends where the input of the first ended
IOStatSameEnd ==
    ioFirst # None => Len(ioInput) = Len(ioFirst[1].input)

\* neither call of ParseTTop has begun
TTopNotCalled == ttPc = "scan" /\ ttInput = <<>> /\ ttFirst = None

\* neither call of ParseIOStat has begun
IOStatNotCalled == ioPc = "scan" /\ ioInput = <<>> /\ ioFirst = None

TwiceInit == ttFirst = None /\ ioFirst = None

\* the lines given to ParseTTop twice: headers with and without a time, counts,
\* memory and rows
TTopTwiceLines == {2, 3, 4, 5, 6, 9, 13, 14}

\* ParseTTop twice, or ParseIOStat twice, on every input of at most MaxTwiceLines lines
TwiceNext ==
    \/ \E i \in TTopTwiceLines :
          /\ IOStatNotCalled
          /\ Len(ttInput) < MaxTwiceLines
          /\ TTopSameBytes(i)
          /\ ParseTTopLine(i)
    \/ IOStatNotCalled /\ TTopSameEnd(None) /\ ParseTTopEnd
    \/ IOStatNotCalled /\ TTopSameEnd(Some("bufio.Scanner: token too long"))
                       /\ ParseTTopTooLong
    \/ IOStatNotCalled /\ ParseTTopAgain
    \/ \E i \in IOStatLineNumbers :
          /\ TTopNotCalled
          /\ Len(ioInput) < MaxTwiceLines
          /\ IOStatSameBytes(i)
          /\ ParseIOStatLine(i)
    \/ TTopNotCalled /\ IOStatSameEnd /\ ParseIOStatEnd
    \/ TTopNotCalled /\ ParseIOStatAgain

----------------------------------------------------------------------------
(* The server: the tables of internal/database/database.go, the uploads directory, *)
(* the handlers of internal/handlers/handlers.go and the report worker of           *)
(* internal/workers/report_worker.go.  Requests and workers run side by side: a     *)
(* handler is cut where it goes on from what it has read of the database, a worker  *)
(* between the statements of its loop.                                              *)

\* hex.EncodeToString(sha256.Sum(content)): one hash per content, no two contents alike
Sha256(k) == <<"sha256", k>>

\* filepath.Join(h.cfg.UploadsDir, hash)
PathOf(hash) == <<"uploads">> \o hash

\* the content of the file at a path of the uploads directory
ContentAt(path) == path[3]

\* what is uploaded: texts made of lines of IOStatLines and TTopLines, and other bytes
StoredContents == <<
    [kind |-> "ttop",   lines |-> <<2, 13>>],          \* 1 header, thread row
    [kind |-> "iostat", lines |-> <<3, 7, 8, 11, 14>>],\* 2 device row of 22 fields
    [kind |-> "iostat", lines |-> <<3, 7, 8, 11, 12>>],\* 3 one whole snapshot
    [kind |-> "other",  lines |-> <<>>]                \* 4 `hello`
>>

\* the bytes of a content: its lines, each ended by a newline
ContentBytes(k) ==
    LET c == StoredContents[k]
        text(i) == IF c.kind = "ttop" THEN TTopLines[i] ELSE IOStatLines[i]
    IN  IF c.kind = "other" THEN Str_hello
        ELSE Join([j \in 1..Len(c.lines) |-> text(c.lines[j])], <<"\n">>) \o <<"\n">>

\* the multipart forms sent to /api/upload: header.Filename and the content
Uploads == <<
    [name |-> <<"t", "t", "o", "p", ".", "t", "x", "t">>, content |-> 1],
    [name |-> <<"a", ".", "t", "x", "t">>,                content |-> 1],
    [name |-> Name_iostat_log,                            content |-> 2],
    [name |-> <<"a", ".", "t", "x", "t">>,                content |-> 3],
    [name |-> <<"x", ".", "j", "f", "r">>,                content |-> 4],
    [name |-> <<"a", ".", "t", "x", "t">>,                content |-> 4],
    [name |-> <<"a", ".", "z", "i", "p">>,                content |-> 4]
>>

\* detector.DetectFileType(header.Filename, fileContent) for each upload
UploadTypes ==
    <<>> \o [u \in DOMAIN Uploads |->
                DetectFileType(Uploads[u].name, TextOf(ContentBytes(Uploads[u].content)))]

\* the requests served side by side
UploadSlots == {1, 2}

\* the report types asked for
ReportTypes == {"ttop", "iostat", "jfr", "bogus"}

\* the row of table files with this hash, deleted or not (None: sql.ErrNoRows)
GetFileByHash(hash) ==
    IF \E id \in DOMAIN dbFiles : dbFiles[id].Hash = hash
    THEN Some(dbFiles[CHOOSE id \in DOMAIN dbFiles : dbFiles[id].Hash = hash])
    ELSE None

\* the row of table files with this id (None: sql.ErrNoRows)
GetFileByID(id) == IF id \in DOMAIN dbFiles THEN Some(dbFiles[id]) ELSE None

\* the row of table reports with this id (None: sql.ErrNoRows)
GetReportByID(id) == IF id \in DOMAIN dbReports THEN Some(dbReports[id]) ELSE None

\* SELECT COUNT(*) FROM reports WHERE file_id = ?, in the table t
GetReportCountByFileID(t, fileID) == Cardinality({r \in DOMAIN t : t[r].FileID = fileID})

\* InsertFile: the row that AUTOINCREMENT numbers nextFileID
NewFile(u, time) ==
    [ID           |-> nextFileID,
     Hash         |-> Sha256(Uploads[u].content),
     OriginalName |-> Uploads[u].name,
     FileType     |-> UploadTypes[u],
     FileSize     |-> Len(ContentBytes(Uploads[u].content)),
     UploadTime   |-> time,
     FilePath     |-> PathOf(Sha256(Uploads[u].content)),
     Deleted      |-> FALSE,
     DeletedTime  |-> None]

\* InsertReport: the row that AUTOINCREMENT numbers nextReportID
NewReport(fileID, type, time) ==
    [ID            |-> nextReportID,
     FileID        |-> fileID,
     ReportType    |-> type,
     Status        |-> "pending",
     CreatedTime   |-> time,
     ReportData    |-> <<>>,
     ErrorMessage  |-> <<>>]

\* MarkFileDeleted: UPDATE files SET deleted = TRUE, deleted_time = ? WHERE id = ?
MarkFileDeleted(t, id, time) ==
    IF id \in DOMAIN t
    THEN [t EXCEPT ![id].Deleted = TRUE, ![id].DeletedTime = Some(time)]
    ELSE t

\* RestoreFile: UPDATE files SET deleted = FALSE, deleted_time = NULL, original_name,
\* file_type, file_size, file_path, upload_time = ? WHERE id = ?
RestoreFile(t, id, u, time) ==
    IF id \in DOMAIN t
    THEN [t EXCEPT ![id].Deleted      = FALSE,
                   ![id].DeletedTime  = None,
                   ![id].OriginalName = Uploads[u].name,
                   ![id].FileType     = UploadTypes[u],
                   ![id].FileSize     = Len(ContentBytes(Uploads[u].content)),
                   ![id].FilePath     = PathOf(Sha256(Uploads[u].content)),
                   ![id].UploadTime   = time]
    ELSE t

\* DeleteFileCompletely, DeleteReport: DELETE FROM <table> WHERE id = ?
DeleteRow(t, id) == [i \in DOMAIN t \ {id} |-> t[i]]

\* UpdateReport: UPDATE reports SET status, completed_time, report_data,
\* error_message WHERE id = ? (completed_time, which nothing here reads, is left out
\* of the rows)
UpdateReport(t, id, status, data, message) ==
    IF id \in DOMAIN t
    THEN [t EXCEPT ![id].Status       = status,
                   ![id].ReportData   = data,
                   ![id].ErrorMessage = message]
    ELSE t

\* shouldAutoGenerateReport with a case for detector.FileTypeArchive
shouldAutoGenerateReport_Archive(fileType) ==
    fileType \in {FileTypeJFR, FileTypeTTop, FileTypeIOStat, FileTypeArchive}

\* shouldAutoGenerateReport
shouldAutoGenerateReport(fileType) ==
    fileType \in {FileTypeJFR, FileTypeTTop, FileTypeIOStat}

\* json.NewEncoder(w).Encode(...) and http.Error(w, ...): the status code, the message
\* and the file record of the answer
Respond(code, message, file) == [code |-> code, message |-> message, file |-> file]

\* no request in the slot, no answer
NoUpload == [pc |-> "idle", upload |-> 0, seen |-> None, resp |-> None]

\* HandleUpload up to the branch on GetFileByHash: slot r serves upload u.  A record
\* that is not deleted is answered at once.
HandleUploadCheck(r, u) ==
    /\ uploads[r].pc \in {"idle", "done"}
    /\ LET existingFile == GetFileByHash(Sha256(Uploads[u].content))
       IN  uploads' = [uploads EXCEPT ![r] =
              IF existingFile # None /\ ~existingFile[1].Deleted
              THEN [pc |-> "done", upload |-> u, seen |-> None,
                    resp |-> Some(Respond(200, "File already exists", existingFile))]
              ELSE [pc |-> IF existingFile # None THEN "restore" ELSE "insert",
                    upload |-> u, seen |-> existingFile, resp |-> None]]
    /\ UNCHANGED <<dbFiles, dbReports, nextFileID, nextReportID, disk, today, worker>>
    /\ UNCHANGED <<ioVars, ttVars, dtVars, twVars, opVars, cwVars>>

\* HandleUpload, "File exists but is deleted - restore it": os.Create and Write,
\* RestoreFile, GetFileByHash, the answer
HandleUploadRestore(r) ==
    /\ uploads[r].pc = "restore"
    /\ LET u    == uploads[r].upload
           hash == Sha256(Uploads[u].content)
       IN  /\ disk' = disk \cup {PathOf(hash)}
           /\ dbFiles' = RestoreFile(dbFiles, uploads[r].seen[1].ID, u, today)
           /\ LET restoredFile ==
                      IF \E id \in DOMAIN dbFiles' : dbFiles'[id].Hash = hash
                      THEN Some(dbFiles'[CHOOSE id \in DOMAIN dbFiles' : dbFiles'[id].Hash = hash])
                      ELSE None
              IN  uploads' = [uploads EXCEPT ![r].pc = "done", ![r].seen = None, ![r].resp =
                     IF restoredFile = None
                     THEN Some(Respond(500, "Failed to get restored file", None))
                     ELSE Some(Respond(200, "File restored successfully", restoredFile))]
    /\ UNCHANGED <<dbReports, nextFileID, nextReportID, today, worker>>
    /\ UNCHANGED <<ioVars, ttVars, dtVars, twVars, opVars, cwVars>>

\* HandleUploadInsert on a table files whose column hash is not UNIQUE
HandleUploadInsert_NotUnique(r) ==
    /\ uploads[r].pc = "insert"
    /\ LET u    == uploads[r].upload
           hash == Sha256(Uploads[u].content)
           dbFile == NewFile(u, today)
       IN  /\ disk' = disk \cup {PathOf(hash)}
           /\ dbFiles' = dbFiles @@ (nextFileID :> dbFile)
           /\ nextFileID' = nextFileID + 1
           /\ IF shouldAutoGenerateReport(dbFile.FileType)
              THEN /\ dbReports' = dbReports @@
                          (nextReportID :> NewReport(dbFile.ID, dbFile.FileType, today))
                   /\ nextReportID' = nextReportID + 1
              ELSE UNCHANGED <<dbReports, nextReportID>>
           /\ uploads' = [uploads EXCEPT ![r].pc = "done", ![r].seen = None, ![r].resp =
                  Some(Respond(200, "File uploaded successfully", Some(dbFile)))]
    /\ UNCHANGED <<today, worker>>
    /\ UNCHANGED <<ioVars, ttVars, dtVars, twVars, opVars, cwVars>>

\* HandleUpload, no record found: os.Create and Write, InsertFile (hash is UNIQUE),
\* InsertReport when shouldAutoGenerateReport, the answer
HandleUploadInsert(r) ==
    /\ uploads[r].pc = "insert"
    /\ LET u    == uploads[r].upload
           hash == Sha256(Uploads[u].content)
           dbFile == NewFile(u, today)
       IN  /\ disk' = disk \cup {PathOf(hash)}
           /\ IF GetFileByHash(hash) # None
              THEN /\ uploads' = [uploads EXCEPT ![r].pc = "done", ![r].seen = None, ![r].resp =
                          Some(Respond(500, "Failed to save file record", None))]
                   /\ UNCHANGED <<dbFiles, dbReports, nextFileID, nextReportID>>
              ELSE /\ dbFiles' = dbFiles @@ (nextFileID :> dbFile)
                   /\ nextFileID' = nextFileID + 1
                   /\ IF shouldAutoGenerateReport(dbFile.FileType)
                      THEN /\ dbReports' = dbReports @@
                                  (nextReportID :> NewReport(dbFile.ID, dbFile.FileType, today))
                           /\ nextReportID' = nextReportID + 1
                      ELSE UNCHANGED <<dbReports, nextReportID>>
                   /\ uploads' = [uploads EXCEPT ![r].pc = "done", ![r].seen = None, ![r].resp =
                          Some(Respond(200, "File uploaded successfully", Some(dbFile)))]
    /\ UNCHANGED <<today, worker>>
    /\ UNCHANGED <<ioVars, ttVars, dtVars, twVars, opVars, cwVars>>

\* no DELETE request in flight
NoFileOp == [pc |-> "idle", file |-> None]

NoReportOp == [pc |-> "idle", report |-> None, file |-> None]

\* HandleFileOperations, DELETE /api/files/{fileID}: GetFileByID; 404 and nothing else
\* when there is no such record.  Of the record, what the handler reads.
HandleFileDeleteGet(fileID) ==
    /\ fileOp.pc = "idle"
    /\ LET file == GetFileByID(fileID)
       IN  fileOp' = IF file = None THEN fileOp
                     ELSE [pc |-> "remove",
                           file |-> Some([ID |-> file[1].ID, FilePath |-> file[1].FilePath])]
    /\ UNCHANGED <<dbFiles, dbReports, nextFileID, nextReportID, disk, today, uploads, worker>>
    /\ UNCHANGED <<ioVars, ttVars, dtVars, twVars, reportOp, redetectOp, cwVars>>

\* HandleFileOperations, DELETE: os.Remove(file.FilePath), a missing file is no error
HandleFileDeleteRemove ==
    /\ fileOp.pc = "remove"
    /\ disk' = disk \ {fileOp.file[1].FilePath}
    /\ fileOp' = [fileOp EXCEPT !.pc = "mark"]
    /\ UNCHANGED <<dbFiles, dbReports, nextFileID, nextReportID, today, uploads, worker>>
    /\ UNCHANGED <<ioVars, ttVars, dtVars, twVars, reportOp, redetectOp, cwVars>>

\* HandleFileOperations, DELETE: MarkFileDeleted(fileID), the answer
HandleFileDeleteMark ==
    /\ fileOp.pc = "mark"
    /\ dbFiles' = MarkFileDeleted(dbFiles, fileOp.file[1].ID, today)
    /\ fileOp' = NoFileOp
    /\ UNCHANGED <<dbReports, nextFileID, nextReportID, disk, today, uploads, worker>>
    /\ UNCHANGED <<ioVars, ttVars, dtVars, twVars, reportOp, redetectOp, cwVars>>

\* HandleReports, POST /api/reports/{id}: InsertReport.  reports.file_id REFERENCES
\* files(id) is enforced on the connection that ran PRAGMA foreign_keys = ON (fk)
\* and on no other connection of the pool.
HandleReportCreate(id, type, fk) ==
    /\ IF fk /\ id \notin DOMAIN dbFiles
       THEN UNCHANGED <<dbReports, nextReportID>>
       ELSE /\ dbReports' = dbReports @@ (nextReportID :> NewReport(id, type, today))
            /\ nextReportID' = nextReportID + 1
    /\ UNCHANGED <<dbFiles, nextFileID, disk, today, uploads, worker>>
    /\ UNCHANGED <<ioVars, ttVars, dtVars, twVars, opVars, cwVars>>

\* HandleReports, DELETE /api/reports/{id}: GetReportByID; 404 and nothing else when
\* there is no such report
HandleReportDeleteGet(id) ==
    /\ reportOp.pc = "idle"
    /\ LET report == GetReportByID(id)
       IN  reportOp' = IF report = None THEN reportOp
                       ELSE [pc |-> "delete",
                             report |-> Some([ID |-> report[1].ID, FileID |-> report[1].FileID]),
                             file |-> None]
    /\ UNCHANGED <<dbFiles, dbReports, nextFileID, nextReportID, disk, today, uploads, worker>>
    /\ UNCHANGED <<ioVars, ttVars, dtVars, twVars, fileOp, redetectOp, cwVars>>

\* HandleReports, DELETE: DeleteReport(id)
HandleReportDeleteDelete ==
    /\ reportOp.pc = "delete"
    /\ dbReports' = DeleteRow(dbReports, reportOp.report[1].ID)
    /\ reportOp' = [reportOp EXCEPT !.pc = "file"]
    /\ UNCHANGED <<dbFiles, nextFileID, nextReportID, disk, today, uploads, worker>>
    /\ UNCHANGED <<ioVars, ttVars, dtVars, twVars, fileOp, redetectOp, cwVars>>

\* HandleReports, DELETE: GetFileByID(report.FileID); the request is answered when
\* there is no such file or the file is not deleted
HandleReportDeleteFile ==
    /\ reportOp.pc = "file"
    /\ LET file == GetFileByID(reportOp.report[1].FileID)
       IN  reportOp' = IF file # None /\ file[1].Deleted
                       THEN [reportOp EXCEPT !.pc = "count", !.file = Some(file[1].ID)]
                       ELSE NoReportOp
    /\ UNCHANGED <<dbFiles, dbReports, nextFileID, nextReportID, disk, today, uploads, worker>>
    /\ UNCHANGED <<ioVars, ttVars, dtVars, twVars, fileOp, redetectOp, cwVars>>

\* HandleReports, DELETE: GetReportCountByFileID(file.ID); the request is answered
\* when a report is left
HandleReportDeleteCount ==
    /\ reportOp.pc = "count"
    /\ reportOp' = IF GetReportCountByFileID(dbReports, reportOp.file[1]) = 0
                   THEN [reportOp EXCEPT !.pc = "purge"]
                   ELSE NoReportOp
    /\ UNCHANGED <<dbFiles, dbReports, nextFileID, nextReportID, disk, today, uploads, worker>>
    /\ UNCHANGED <<ioVars, ttVars, dtVars, twVars, fileOp, redetectOp, cwVars>>

\* DeleteFileCompletely: DELETE FROM files WHERE id = ?, which fails on a connection
\* that enforces reports.file_id REFERENCES files(id) (fk) while a report has the id
DeleteFileCompletely(t, id, fk) ==
    IF fk /\ GetReportCountByFileID(dbReports, id) # 0 THEN t ELSE DeleteRow(t, id)

\* HandleReports, DELETE: DeleteFileCompletely(file.ID), the answer
HandleReportDeletePurge(fk) ==
    /\ reportOp.pc = "purge"
    /\ dbFiles' = DeleteFileCompletely(dbFiles, reportOp.file[1], fk)
    /\ reportOp' = NoReportOp
    /\ UNCHANGED <<dbReports, nextFileID, nextReportID, disk, today, uploads, worker>>
    /\ UNCHANGED <<ioVars, ttVars, dtVars, twVars, fileOp, redetectOp, cwVars>>

\* UpdateFileFileType: UPDATE files SET file_type = ?, upload_time = ? WHERE id = ?
UpdateFileFileType(t, id, fileType, time) ==
    IF id \in DOMAIN t
    THEN [t EXCEPT ![id].FileType = fileType, ![id].UploadTime = time]
    ELSE t

\* detector.DetectFileType(file.OriginalName, content) for the bytes of content k: a
\* name and a content that are in table files are those of one of the Uploads
RedetectedType(name, k) ==
    UploadTypes[CHOOSE u \in DOMAIN Uploads :
                    Uploads[u].name = name /\ Uploads[u].content = k]

\* no POST /api/files/{id}/redetect in flight
NoRedetectOp == [pc |-> "idle", file |-> None, newFileType |-> ""]

\* HandleRedetectFileType: GetFileByID; 404 and nothing else when there is no such
\* record.  Of the record, what the handler reads.
HandleRedetectGet(fileID) ==
    /\ redetectOp.pc = "idle"
    /\ LET file == GetFileByID(fileID)
       IN  redetectOp' =
              IF file = None THEN redetectOp
              ELSE [pc |-> "read",
                    file |-> Some([ID |-> file[1].ID, OriginalName |-> file[1].OriginalName,
                                   FilePath |-> file[1].FilePath]),
                    newFileType |-> ""]
    /\ UNCHANGED <<dbFiles, dbReports, nextFileID, nextReportID, disk, today, uploads, worker>>
    /\ UNCHANGED <<ioVars, ttVars, dtVars, twVars, fileOp, reportOp, cwVars>>

\* HandleRedetectFileType: os.ReadFile(file.FilePath) (500 when the file is not
\* there), DetectFileType, UpdateFileFileType, GetFileByID (500 when the record is
\* not there)
HandleRedetectUpdate ==
    /\ redetectOp.pc = "read"
    /\ LET file        == redetectOp.file[1]
           newFileType == RedetectedType(file.OriginalName, ContentAt(file.FilePath))
       IN  IF file.FilePath \notin disk
           THEN /\ dbFiles' = dbFiles
                /\ redetectOp' = NoRedetectOp
           ELSE /\ dbFiles' = UpdateFileFileType(dbFiles, file.ID, newFileType, today)
                /\ redetectOp' =
                      IF file.ID \in DOMAIN dbFiles
                      THEN [redetectOp EXCEPT !.pc = "report", !.newFileType = newFileType]
                      ELSE NoRedetectOp
    /\ UNCHANGED <<dbReports, nextFileID, nextReportID, disk, today, uploads, worker>>
    /\ UNCHANGED <<ioVars, ttVars, dtVars, twVars, fileOp, reportOp, cwVars>>

\* HandleRedetectFileType: InsertReport when shouldAutoGenerateReport(newFileType), a
\* failure of which is logged; the answer.  reports.file_id REFERENCES files(id) is
\* enforced (fk) on one connection of the pool only.
HandleRedetectReport(fk) ==
    /\ redetectOp.pc = "report"
    /\ IF /\ shouldAutoGenerateReport(redetectOp.newFileType)
          /\ ~(fk /\ redetectOp.file[1].ID \notin DOMAIN dbFiles)
       THEN /\ dbReports' = dbReports @@
                   (nextReportID :>
                        NewReport(redetectOp.file[1].ID, redetectOp.newFileType, today))
            /\ nextReportID' = nextReportID + 1
       ELSE UNCHANGED <<dbReports, nextReportID>>
    /\ redetectOp' = NoRedetectOp
    /\ UNCHANGED <<dbFiles, nextFileID, disk, today, uploads, worker>>
    /\ UNCHANGED <<ioVars, ttVars, dtVars, twVars, fileOp, reportOp, cwVars>>

\* a file of the uploads directory is removed by something other than the server
RemoveOutside(path) ==
    /\ path \in disk
    /\ disk' = disk \ {path}
    /\ UNCHANGED <<dbFiles, dbReports, nextFileID, nextReportID, today, uploads, worker>>
    /\ UNCHANGED <<ioVars, ttVars, dtVars, twVars, opVars, cwVars>>

\* time passes: time.Now() returns a later value
Tick ==
    /\ today' = today + 1
    /\ UNCHANGED <<dbFiles, dbReports, nextFileID, nextReportID, disk, uploads, worker>>
    /\ UNCHANGED <<ioVars, ttVars, dtVars, twVars, opVars, cwVars>>

----------------------------------------------------------------------------
(* internal/workers/report_worker.go *)

\* GetPendingReports with ORDER BY created_time DESC
GetPendingReports_NewestFirst ==
    LET ids == {r \in DOMAIN dbReports : dbReports[r].Status = "pending"}
        n   == Cardinality(ids)
    IN  {[j \in 1..n |-> [ID         |-> q[j],
                           FileID     |-> dbReports[q[j]].FileID,
                           ReportType |-> dbReports[q[j]].ReportType]] :
            q \in {p \in [1..n -> ids] :
                     \A a, b \in 1..n :
                        a < b => /\ p[a] # p[b]
                                 /\ dbReports[p[a]].CreatedTime >= dbReports[p[b]].CreatedTime}}

\* GetPendingReports: SELECT ... WHERE status = 'pending' ORDER BY created_time ASC,
\* every order the query can give (rows of one created_time come in any order); of a
\* row, what processReport reads
GetPendingReports ==
    LET ids == {r \in DOMAIN dbReports : dbReports[r].Status = "pending"}
        n   == Cardinality(ids)
    IN  {[j \in 1..n |-> [ID         |-> q[j],
                           FileID     |-> dbReports[q[j]].FileID,
                           ReportType |-> dbReports[q[j]].ReportType]] :
            q \in {p \in [1..n -> ids] :
                     \A a, b \in 1..n :
                        a < b => /\ p[a] # p[b]
                                 /\ dbReports[p[a]].CreatedTime <= dbReports[p[b]].CreatedTime}}

\* the worker between two ticks of its ticker
WorkerIdle == [pc |-> "idle", queue |-> <<>>, batch |-> <<>>, report |-> None, content |-> 0]

\* processReports: GetPendingReports, before the loop
ProcessReportsFetch ==
    /\ worker.pc = "idle"
    /\ \E rows \in GetPendingReports :
          worker' = [pc |-> "loop", queue |-> rows, batch |-> rows, report |-> None,
                     content |-> 0]
    /\ UNCHANGED <<dbFiles, dbReports, nextFileID, nextReportID, disk, today, uploads>>
    /\ UNCHANGED <<ioVars, ttVars, dtVars, twVars, opVars, cwVars>>

\* processReports: the loop is over, the function returns
ProcessReportsReturn ==
    /\ worker.pc = "loop"
    /\ worker.queue = <<>>
    /\ worker' = WorkerIdle
    /\ UNCHANGED <<dbFiles, dbReports, nextFileID, nextReportID, disk, today, uploads>>
    /\ UNCHANGED <<ioVars, ttVars, dtVars, twVars, opVars, cwVars>>

\* processReport, "Update status to running", for the next report of the loop
ProcessReportRunning ==
    /\ worker.pc = "loop"
    /\ worker.queue # <<>>
    /\ dbReports' = UpdateReport(dbReports, Head(worker.queue).ID, "running", <<>>, <<>>)
    /\ worker' = [worker EXCEPT !.pc = "running", !.report = Some(Head(worker.queue)),
                                !.queue = Tail(worker.queue)]
    /\ UNCHANGED <<dbFiles, nextFileID, nextReportID, disk, today, uploads>>
    /\ UNCHANGED <<ioVars, ttVars, dtVars, twVars, opVars, cwVars>>

\* processReport, "Update report with results": UpdateReport(id, "failed", "", message)
\* or UpdateReport(id, "completed", reportData, ""), and back to the loop
ProcessReportResult(reportData, message) ==
    /\ dbReports' = IF message # <<>>
                  THEN UpdateReport(dbReports, worker.report[1].ID, "failed", <<>>, message)
                  ELSE UpdateReport(dbReports, worker.report[1].ID, "completed", reportData,
                                    <<>>)
    /\ worker' = [worker EXCEPT !.pc = "loop", !.report = None, !.content = 0]

\* processReport from getFileByID to the call of the parser: the file record, the
\* switch on report.ReportType, secureReadFile; GenerateJFRReport as a whole
ProcessReportLoad ==
    /\ worker.pc = "running"
    /\ LET report == worker.report[1]
           file   == GetFileByID(report.FileID)
       IN  IF file = None
           THEN /\ ProcessReportResult(<<>>, <<"File not found">>)
                /\ UNCHANGED <<ioVars, ttVars>>
           ELSE IF report.ReportType \notin {"ttop", "iostat", "jfr"}
           THEN /\ ProcessReportResult(<<>>, <<"unknown report type", report.ReportType>>)
                /\ UNCHANGED <<ioVars, ttVars>>
           ELSE IF file[1].FilePath \notin disk
           THEN /\ ProcessReportResult(<<>>, <<"failed to read file", file[1].FilePath>>)
                /\ UNCHANGED <<ioVars, ttVars>>
           ELSE IF report.ReportType = "jfr"
           THEN /\ ProcessReportResult(<<"json", "jfr", file[1].FileSize>>, <<>>)
                /\ UNCHANGED <<ioVars, ttVars>>
           ELSE IF report.ReportType = "ttop"
           THEN /\ worker' = [worker EXCEPT !.pc = "ttop",
                                            !.content = ContentAt(file[1].FilePath)]
                /\ UNCHANGED <<dbReports, ioVars, ttVars>>
           ELSE /\ worker' = [worker EXCEPT !.pc = "iostat",
                                            !.content = ContentAt(file[1].FilePath)]
                /\ UNCHANGED <<dbReports, ioVars, ttVars>>
    /\ UNCHANGED <<dbFiles, nextFileID, nextReportID, disk, today, uploads>>
    /\ UNCHANGED <<dtVars, twVars, opVars, cwVars>>

\* the lines of the file the worker has read
WorkerLines == StoredContents[worker.content].lines

\* GenerateTTopReport after ParseTTop, and the UpdateReport that follows; the locals of
\* ParseTTop are as before its next call
ProcessReportTTop ==
    /\ worker.pc = "ttop"
    /\ ttPc = "done"
    /\ IF ttErr # None
       THEN ProcessReportResult(<<>>, <<"failed to parse ttop content", ttErr[1]>>)
       ELSE ProcessReportResult(<<"json", "ttop", Len(ttData[1].Snapshots)>>, <<>>)
    /\ ttInput' = <<>> /\ ttSnapshots' = <<>> /\ ttCurrent' = None
    /\ ttScanErr' = None /\ ttPc' = "scan" /\ ttData' = None /\ ttErr' = None
    /\ UNCHANGED <<dbFiles, nextFileID, nextReportID, disk, today, uploads>>
    /\ UNCHANGED <<ioVars, dtVars, twVars, opVars, cwVars>>

\* ProcessReportIOStat that takes a failed parse for a file without snapshots
ProcessReportIOStat_Swallow ==
    /\ worker.pc = "iostat"
    /\ ioPc = "done"
    /\ ProcessReportResult(<<"json", "iostat",
                             IF ioErr # None THEN 0 ELSE Len(ioData[1].Snapshots)>>, <<>>)
    /\ ioInput' = <<>> /\ lineNumber' = 0 /\ ioSnapshots' = <<>>
    /\ ioCurrent' = None /\ systemInfo' = <<>> /\ inDeviceSection' = FALSE
    /\ expectingCPUStats' = FALSE /\ ioPc' = "scan" /\ ioData' = None /\ ioErr' = None
    /\ UNCHANGED <<dbFiles, nextFileID, nextReportID, disk, today, uploads>>
    /\ UNCHANGED <<ttVars, dtVars, twVars, opVars, cwVars>>

\* GenerateIOStatReport after ParseIOStat, and the UpdateReport that follows; the
\* locals of ParseIOStat are as before its next call
ProcessReportIOStat ==
    /\ worker.pc = "iostat"
    /\ ioPc = "done"
    /\ IF ioErr # None
       THEN ProcessReportResult(<<>>, <<"failed to parse iostat content", ioErr[1]>>)
       ELSE ProcessReportResult(<<"json", "iostat", Len(ioData[1].Snapshots)>>, <<>>)
    /\ ioInput' = <<>> /\ lineNumber' = 0 /\ ioSnapshots' = <<>>
    /\ ioCurrent' = None /\ systemInfo' = <<>> /\ inDeviceSection' = FALSE
    /\ expectingCPUStats' = FALSE /\ ioPc' = "scan" /\ ioData' = None /\ ioErr' = None
    /\ UNCHANGED <<dbFiles, nextFileID, nextReportID, disk, today, uploads>>
    /\ UNCHANGED <<ttVars, dtVars, twVars, opVars, cwVars>>

----------------------------------------------------------------------------
(* internal/workers/cleanup_worker.go, and HandleSettings of handlers.go *)

\* a float64 that a computation has given: the double nearest to the decimal fraction
\* val (ulp = 0), the double next below it (ulp = -1) or next above it (ulp = 1)
Float64(val, ulp) == [val |-> val, ulp |-> ulp]

\* the percentages whose quotient by 100.0 is, in float64 arithmetic, the double next
\* below the one nearest to the decimal quotient: 16.4 / 100.0 is 0.16399999999999998
\* and 0.7 / 100.0 is 0.006999999999999999; of the other percentages sent here the
\* quotient is the nearest double
QuotientBelow == {<<164, 10>>, <<7, 10>>}

\* maxUsage / 100.0
Quo100(x) == Float64(Reduce(x[1], x[2] * 100), IF x \in QuotientBelow THEN 0 - 1 ELSE 0)

\* a < b on float64
FloatLess(a, b) ==
    LET d == IF a.val[2] > b.val[2] THEN a.val[2] ELSE b.val[2]
        x == a.val[1] * (d \div a.val[2])
        y == b.val[1] * (d \div b.val[2])
    IN  x < y \/ (x = y /\ a.ulp < b.ulp)

\* strconv.Itoa, fmt.Sprintf("%d", n) of n >= 0
RECURSIVE Itoa(_)
Itoa(n) == IF n < 10 THEN <<Digits[n + 1]>> ELSE Itoa(n \div 10) \o <<Digits[(n % 10) + 1]>>

\* fmt.Sprintf("%.6f", a) of a >= 0: the decimal of six places nearest to the double
\* (a double halfway between two of them is none of the values formatted here)
FormatF6(a) ==
    LET num == a.val[1]
        den == a.val[2]
        k   == den \div 1000000
        q   == IF k = 0 THEN num * (1000000 \div den) ELSE num \div k
        r   == IF k = 0 THEN 0 ELSE num % k
        up  == k # 0 /\ (2 * r > k \/ (2 * r = k /\ (a.ulp > 0 \/ (a.ulp = 0 /\ q % 2 = 1))))
        n   == IF up THEN q + 1 ELSE q
    IN  Itoa(n \div 1000000) \o <<".">> \o Tail(Itoa(1000000 + (n % 1000000)))

\* main: cfg, "Default fallback value"
DefaultConfig == [MaxDiskUsage |-> Float64(<<5, 10>>, 0), FileRetentionDays |-> 14]

\* main: InitializeSettings(defaultSettings) on an empty table settings
DefaultSettings ==
    [max_disk_usage |-> Some(<<"0", ".", "5", "0", "0", "0", "0", "0">>),
     file_retention_days |-> Some(<<"1", "4">>)]

\* getMaxDiskUsage, of the handlers and of the worker: GetSetting and ParseFloat, cfg
\* when either fails
getMaxDiskUsage ==
    LET value == settings.max_disk_usage
    IN  IF value # None /\ ParseFloat(value[1]).ok
        THEN Float64(ParseFloat(value[1]).val, 0)
        ELSE cfg.MaxDiskUsage

\* getFileRetentionDays: GetSetting and Atoi, cfg when either fails
getFileRetentionDays ==
    LET value == settings.file_retention_days
    IN  IF value # None /\ Atoi(value[1]).ok
        THEN Atoi(value[1]).val
        ELSE cfg.FileRetentionDays

\* the bodies posted to /api/settings: max_disk_usage (a percentage) and
\* file_retention_days
SettingsRequests == <<
    [max_disk_usage |-> <<"5", "0">>,      file_retention_days |-> <<"1", "4">>],
    [max_disk_usage |-> <<"5", "0">>,      file_retention_days |-> <<"0">>],
    [max_disk_usage |-> <<"4", "0">>,      file_retention_days |-> <<"1", "4">>],
    [max_disk_usage |-> <<"1", "6", ".", "4">>,
                                           file_retention_days |-> <<"1", "4">>],
    [max_disk_usage |-> <<"4", "9", ".", "9", "9", "9", "9", "6">>,
                                           file_retention_days |-> <<"1", "4">>],
    [max_disk_usage |-> <<"1", "0", "1">>, file_retention_days |-> <<"0">>],
    [max_disk_usage |-> <<"x">>,           file_retention_days |-> <<"0">>],
    [max_disk_usage |-> <<"4", "0">>,      file_retention_days |-> <<"-", "1">>]
>>

\* HandleSettings, what it computes from the body alone: ParseFloat(req.MaxDiskUsage),
\* the range check, maxUsage / 100.0, Sprintf("%.6f", maxUsageDecimal),
\* Atoi(req.FileRetentionDays)
SettingsParsed ==
    <<>> \o [q \in DOMAIN SettingsRequests |->
                LET maxUsage == ParseFloat(SettingsRequests[q].max_disk_usage)
                IN  [inRange         |-> /\ maxUsage.ok
                                         /\ maxUsage.val[1] >= 0
                                         /\ maxUsage.val[1] <= 100 * maxUsage.val[2],
                     maxUsageDecimal |-> Quo100(maxUsage.val),
                     value           |-> FormatF6(Quo100(maxUsage.val)),
                     retentionDays   |-> Atoi(SettingsRequests[q].file_retention_days)]]

\* HandleSettings, POST /api/settings with the body SettingsRequests[q]: the threshold
\* is validated, stored with six decimals and compared, unrounded, with the stored one
\* it replaces; then the retention days are validated and stored
HandleSettings(q) ==
    LET req              == SettingsParsed[q]
        currentThreshold == getMaxDiskUsage
        daysStored       == req.inRange /\ req.retentionDays.ok /\ req.retentionDays.val >= 0
    IN  /\ settings' =
              [max_disk_usage |->
                   IF req.inRange THEN Some(req.value) ELSE settings.max_disk_usage,
               file_retention_days |->
                   IF daysStored THEN Some(Itoa(req.retentionDays.val))
                   ELSE settings.file_retention_days]
        /\ cfg' =
              [MaxDiskUsage |->
                   IF req.inRange THEN req.maxUsageDecimal ELSE cfg.MaxDiskUsage,
               FileRetentionDays |->
                   IF daysStored THEN req.retentionDays.val ELSE cfg.FileRetentionDays]
        /\ goTrigger' = IF req.inRange /\ FloatLess(req.maxUsageDecimal, currentThreshold)
                        THEN goTrigger + 1
                        ELSE goTrigger
        /\ UNCHANGED <<dbFiles, dbReports, nextFileID, nextReportID, disk, today, uploads,
                       worker, cleaner, triggerChan>>
        /\ UNCHANGED <<ioVars, ttVars, dtVars, twVars, opVars>>

\* TriggerCleanup without the default case of its select: the send waits until the
\* channel has room
TriggerCleanup_Send ==
    /\ goTrigger > 0
    /\ triggerChan = 0
    /\ goTrigger' = goTrigger - 1
    /\ triggerChan' = 1
    /\ UNCHANGED <<dbFiles, dbReports, nextFileID, nextReportID, disk, today, uploads,
                   worker, cleaner, settings, cfg>>
    /\ UNCHANGED <<ioVars, ttVars, dtVars, twVars, opVars>>

\* TriggerCleanup, in the goroutine HandleSettings has started: a send on triggerChan
\* (capacity 1), dropped when the channel is full
TriggerCleanup ==
    /\ goTrigger > 0
    /\ goTrigger' = goTrigger - 1
    /\ triggerChan' = IF triggerChan = 0 THEN 1 ELSE triggerChan
    /\ UNCHANGED <<dbFiles, dbReports, nextFileID, nextReportID, disk, today, uploads,
                   worker, cleaner, settings, cfg>>
    /\ UNCHANGED <<ioVars, ttVars, dtVars, twVars, opVars>>

\* the cleanup worker between two runs of performCleanup
CleanerIdle ==
    [pc |-> "idle", files |-> <<>>, usage |-> None, max |-> None, cutoff |-> None,
     deletedCount |-> 0]

\* the rows of t in ids, ORDER BY upload_time ASC (rows of one time in the order of
\* their ids), of each what the worker reads of it
RECURSIVE ByUploadTime(_, _)
ByUploadTime(t, ids) ==
    IF ids = {} THEN <<>>
    ELSE LET first == CHOOSE i \in ids : \A j \in ids :
                          \/ t[i].UploadTime < t[j].UploadTime
                          \/ (t[i].UploadTime = t[j].UploadTime /\ i <= j)
         IN  <<[ID |-> t[first].ID, FilePath |-> t[first].FilePath,
                UploadTime |-> t[first].UploadTime]>>
             \o ByUploadTime(t, ids \ {first})

\* GetFilesOlderThan: WHERE deleted = FALSE AND upload_time < ? ORDER BY upload_time ASC
GetFilesOlderThan(cutoffTime) ==
    ByUploadTime(dbFiles, {i \in DOMAIN dbFiles :
                              ~dbFiles[i].Deleted /\ dbFiles[i].UploadTime < cutoffTime})

\* getOldestFiles: WHERE deleted = 0 ORDER BY upload_time ASC LIMIT ?
getOldestFiles(limit) ==
    LET rows == ByUploadTime(dbFiles, {i \in DOMAIN dbFiles : ~dbFiles[i].Deleted})
    IN  SubSeq(rows, 1, IF Len(rows) < limit THEN Len(rows) ELSE limit)

\* the query of cleanupOrphanedFileEntries: FROM files f LEFT JOIN reports r ON
\* f.id = r.file_id WHERE f.deleted = 1 AND r.file_id IS NULL
OrphanedFiles ==
    ByUploadTime(dbFiles, {i \in DOMAIN dbFiles :
                              /\ dbFiles[i].Deleted
                              /\ GetReportCountByFileID(dbReports, i) = 0})

\* the fractions of the disk that syscall.Statfs finds used
DiskUsages == {<<3, 10>>, <<7, 10>>}

\* Start: the ticker fires
CleanupTick ==
    /\ cleaner.pc = "idle"
    /\ cleaner' = [cleaner EXCEPT !.pc = "perform"]
    /\ UNCHANGED <<dbFiles, dbReports, nextFileID, nextReportID, disk, today, uploads,
                   worker, settings, triggerChan, cfg, goTrigger>>
    /\ UNCHANGED <<ioVars, ttVars, dtVars, twVars, opVars>>

\* Start: a value is received from triggerChan
CleanupTriggered ==
    /\ cleaner.pc = "idle"
    /\ triggerChan > 0
    /\ triggerChan' = triggerChan - 1
    /\ cleaner' = [cleaner EXCEPT !.pc = "perform"]
    /\ UNCHANGED <<dbFiles, dbReports, nextFileID, nextReportID, disk, today, uploads,
                   worker, settings, cfg, goTrigger>>
    /\ UNCHANGED <<ioVars, ttVars, dtVars, twVars, opVars>>

\* performCleanup up to the branch on needsCleanup: getDiskUsage (usage = None: it
\* fails, and performCleanup returns), getMaxDiskUsage
PerformCleanup(usage) ==
    /\ cleaner.pc = "perform"
    /\ cleaner' =
          IF usage = None THEN CleanerIdle
          ELSE [cleaner EXCEPT
                   !.pc = IF FloatLess(getMaxDiskUsage, Float64(usage[1], 0))
                          THEN "oldest" ELSE "old",
                   !.usage = Some(Float64(usage[1], 0)),
                   !.max = Some(getMaxDiskUsage),
                   !.deletedCount = 0]
    /\ UNCHANGED <<dbFiles, dbReports, nextFileID, nextReportID, disk, today, uploads,
                   worker, settings, triggerChan, cfg, goTrigger>>
    /\ UNCHANGED <<ioVars, ttVars, dtVars, twVars, opVars>>

\* cleanupOldFiles up to its loop: getFileRetentionDays, cutoffTime, getFilesForCleanup
CleanupOldFiles ==
    /\ cleaner.pc = "old"
    /\ LET cutoffTime == today - getFileRetentionDays
           files      == GetFilesOlderThan(cutoffTime)
       IN  cleaner' = [cleaner EXCEPT !.pc = IF files = <<>> THEN "orphans" ELSE "oldRemove",
                                      !.files = files,
                                      !.cutoff = Some(cutoffTime)]
    /\ UNCHANGED <<dbFiles, dbReports, nextFileID, nextReportID, disk, today, uploads,
                   worker, settings, triggerChan, cfg, goTrigger>>
    /\ UNCHANGED <<ioVars, ttVars, dtVars, twVars, opVars>>

\* deleteFile of cleanupOldFiles: os.Remove(file.FilePath); a missing file is no
\* error, any other failure (~ok) is logged and the file is left as it is
CleanupOldRemove(ok) ==
    /\ cleaner.pc = "oldRemove"
    /\ IF ok
       THEN /\ disk' = disk \ {Head(cleaner.files).FilePath}
            /\ cleaner' = [cleaner EXCEPT !.pc = "oldMark"]
       ELSE /\ disk' = disk
            /\ cleaner' = [cleaner EXCEPT
                              !.pc = IF Len(cleaner.files) = 1 THEN "orphans" ELSE "oldRemove",
                              !.files = Tail(cleaner.files)]
    /\ UNCHANGED <<dbFiles, dbReports, nextFileID, nextReportID, today, uploads,
                   worker, settings, triggerChan, cfg, goTrigger>>
    /\ UNCHANGED <<ioVars, ttVars, dtVars, twVars, opVars>>

\* deleteFile of cleanupOldFiles: MarkFileDeleted(file.ID); then the next file, or
\* cleanupOrphanedFileEntries
CleanupOldMark ==
    /\ cleaner.pc = "oldMark"
    /\ dbFiles' = MarkFileDeleted(dbFiles, Head(cleaner.files).ID, today)
    /\ cleaner' = [cleaner EXCEPT
                      !.pc = IF Len(cleaner.files) = 1 THEN "orphans" ELSE "oldRemove",
                      !.files = Tail(cleaner.files)]
    /\ UNCHANGED <<dbReports, nextFileID, nextReportID, disk, today, uploads,
                   worker, settings, triggerChan, cfg, goTrigger>>
    /\ UNCHANGED <<ioVars, ttVars, dtVars, twVars, opVars>>

\* performCleanup, `for currentDiskUsage > maxDiskUsage`: getOldestFiles(50); the loop
\* is left when the usage is no longer above the threshold or no file is found, and
\* cleanupOrphanedFileEntries follows (the usage read after the loop is only logged)
CleanupOldest ==
    /\ cleaner.pc = "oldest"
    /\ LET files == getOldestFiles(50)
       IN  cleaner' =
              IF FloatLess(cleaner.max[1], cleaner.usage[1]) /\ files # <<>>
              THEN [cleaner EXCEPT !.pc = "oldestRemove", !.files = files]
              ELSE [cleaner EXCEPT !.pc = "orphans", !.files = <<>>]
    /\ UNCHANGED <<dbFiles, dbReports, nextFileID, nextReportID, disk, today, uploads,
                   worker, settings, triggerChan, cfg, goTrigger>>
    /\ UNCHANGED <<ioVars, ttVars, dtVars, twVars, opVars>>

\* deleteFile of the loop of performCleanup: os.Remove(file.FilePath); on a failure
\* (~ok) `continue`
CleanupOldestRemove(ok) ==
    /\ cleaner.pc = "oldestRemove"
    /\ IF ok
       THEN /\ disk' = disk \ {Head(cleaner.files).FilePath}
            /\ cleaner' = [cleaner EXCEPT !.pc = "oldestMark"]
       ELSE /\ disk' = disk
            /\ cleaner' = [cleaner EXCEPT
                              !.pc = IF Len(cleaner.files) = 1 THEN "oldest" ELSE "oldestRemove",
                              !.files = Tail(cleaner.files)]
    /\ UNCHANGED <<dbFiles, dbReports, nextFileID, nextReportID, today, uploads,
                   worker, settings, triggerChan, cfg, goTrigger>>
    /\ UNCHANGED <<ioVars, ttVars, dtVars, twVars, opVars>>

\* deleteFile of the loop of performCleanup: MarkFileDeleted(file.ID), deletedCount++
\* (kept modulo 5, which is all that is read of it), and after every fifth file
\* getDiskUsage (usage = None: it fails, `continue`) and `break` when the usage is no
\* longer above the threshold
CleanupOldestMark(usage) ==
    /\ cleaner.pc = "oldestMark"
    /\ dbFiles' = MarkFileDeleted(dbFiles, Head(cleaner.files).ID, today)
    /\ LET deletedCount == (cleaner.deletedCount + 1) % 5
           reread       == deletedCount = 0 /\ usage # None
           current      == IF reread THEN Some(Float64(usage[1], 0)) ELSE cleaner.usage
           below        == reread /\ ~FloatLess(cleaner.max[1], current[1])
       IN  cleaner' = [cleaner EXCEPT
                          !.pc = IF below \/ Len(cleaner.files) = 1
                                 THEN "oldest" ELSE "oldestRemove",
                          !.files = IF below THEN <<>> ELSE Tail(cleaner.files),
                          !.usage = current,
                          !.deletedCount = deletedCount]
    /\ UNCHANGED <<dbReports, nextFileID, nextReportID, disk, today, uploads,
                   worker, settings, triggerChan, cfg, goTrigger>>
    /\ UNCHANGED <<ioVars, ttVars, dtVars, twVars, opVars>>

\* cleanupOrphanedFileEntries up to its loop: the query; performCleanup returns when
\* it finds nothing
CleanupOrphans ==
    /\ cleaner.pc = "orphans"
    /\ cleaner' = IF OrphanedFiles = <<>> THEN CleanerIdle
                  ELSE [cleaner EXCEPT !.pc = "purge", !.files = OrphanedFiles]
    /\ UNCHANGED <<dbFiles, dbReports, nextFileID, nextReportID, disk, today, uploads,
                   worker, settings, triggerChan, cfg, goTrigger>>
    /\ UNCHANGED <<ioVars, ttVars, dtVars, twVars, opVars>>

\* cleanupOrphanedFileEntries, its loop: DeleteFileCompletely(file.ID), a failure is
\* logged; performCleanup returns after the last file
CleanupPurge(fk) ==
    /\ cleaner.pc = "purge"
    /\ dbFiles' = DeleteFileCompletely(dbFiles, Head(cleaner.files).ID, fk)
    /\ cleaner' = IF Len(cleaner.files) = 1 THEN CleanerIdle
                  ELSE [cleaner EXCEPT !.files = Tail(cleaner.files)]
    /\ UNCHANGED <<dbReports, nextFileID, nextReportID, disk, today, uploads,
                   worker, settings, triggerChan, cfg, goTrigger>>
    /\ UNCHANGED <<ioVars, ttVars, dtVars, twVars, opVars>>

----------------------------------------------------------------------------
(* The server as a whole *)

\* after main has opened an empty database and an empty uploads directory
ServerInit ==
    /\ dbFiles = <<>>
    /\ dbReports = <<>>
    /\ nextFileID = 1
    /\ nextReportID = 1
    /\ disk = {}
    /\ today = 0
    /\ uploads = [r \in UploadSlots |-> NoUpload]
    /\ worker = WorkerIdle
    /\ fileOp = NoFileOp
    /\ reportOp = NoReportOp
    /\ redetectOp = NoRedetectOp
    /\ cleaner = CleanerIdle
    /\ settings = DefaultSettings
    /\ triggerChan = 0
    /\ cfg = DefaultConfig
    /\ goTrigger = 0

\* the worker is not inside a parser: what a parser computes from the bytes it was
\* given depends on nothing the handlers do
NotParsing == worker.pc \notin {"ttop", "iostat"}

\* a report of type ttop or iostat is asked for a file of that kind
Parsable(id, type) ==
    type \in {"ttop", "iostat"} =>
        /\ id \in DOMAIN dbFiles
        /\ StoredContents[dbFiles[id].Hash[2]].kind = type

\* no request is being served
NoRequest ==
    /\ fileOp.pc = "idle"
    /\ reportOp.pc = "idle"
    /\ \A r \in DOMAIN uploads : uploads[r].pc \in {"idle", "done"}

\* a request is taken up when the server is free to serve it
Accepted(free) == NotParsing /\ free

\* HandleUpload (slots: the requests served side by side; ups: what is uploaded)
UploadNext(slots, ups, maxFiles, maxReports, free) ==
    \/ \E r \in slots, u \in ups : Accepted(free) /\ HandleUploadCheck(r, u)
    \/ \E r \in slots : NotParsing /\ HandleUploadRestore(r)
    \/ \E r \in slots :
          /\ NotParsing
          /\ uploads[r].pc = "insert"
          /\ GetFileByHash(Sha256(Uploads[uploads[r].upload].content)) = None =>
                nextFileID <= maxFiles /\ nextReportID <= maxReports
          /\ HandleUploadInsert(r)

\* HandleFileOperations, DELETE
FileDeleteNext(maxFiles, free) ==
    \/ \E id \in 1..maxFiles : Accepted(free) /\ HandleFileDeleteGet(id)
    \/ NotParsing /\ HandleFileDeleteRemove
    \/ NotParsing /\ HandleFileDeleteMark

\* HandleReports, POST (types: the report types asked for)
ReportCreateNext(types, maxFiles, maxReports, free) ==
    \E id \in 1..maxFiles, type \in types, fk \in BOOLEAN :
          /\ Accepted(free)
          /\ nextReportID <= maxReports
          /\ Parsable(id, type)
          /\ HandleReportCreate(id, type, fk)

\* HandleReports, DELETE
ReportDeleteNext(maxReports, free) ==
    \/ \E id \in 1..maxReports : Accepted(free) /\ HandleReportDeleteGet(id)
    \/ NotParsing /\ HandleReportDeleteDelete
    \/ NotParsing /\ HandleReportDeleteFile
    \/ NotParsing /\ HandleReportDeleteCount
    \/ \E fk \in BOOLEAN : NotParsing /\ HandleReportDeletePurge(fk)

\* the uploads, the file and report handlers
HandlersNext(slots, ups, types, maxFiles, maxReports, free) ==
    \/ UploadNext(slots, ups, maxFiles, maxReports, free)
    \/ FileDeleteNext(maxFiles, free)
    \/ ReportCreateNext(types, maxFiles, maxReports, free)
    \/ ReportDeleteNext(maxReports, free)

\* the report worker, with the parsers reading the lines of the file it has read
ReportWorkerNext ==
    \/ ProcessReportsFetch
    \/ ProcessReportRunning
    \/ ProcessReportLoad
    \/ \E i \in TTopLineNumbers :
          /\ worker.pc = "ttop"
          /\ Len(ttInput) < Len(WorkerLines)
          /\ i = WorkerLines[Len(ttInput) + 1]
          /\ ParseTTopLine(i)
    \/ worker.pc = "ttop" /\ Len(ttInput) = Len(WorkerLines) /\ ParseTTopEnd
    \/ ProcessReportTTop
    \/ \E i \in IOStatLineNumbers :
          /\ worker.pc = "iostat"
          /\ Len(ioInput) < Len(WorkerLines)
          /\ i = WorkerLines[Len(ioInput) + 1]
          /\ ParseIOStatLine(i)
    \/ worker.pc = "iostat" /\ Len(ioInput) = Len(WorkerLines) /\ ParseIOStatEnd
    \/ ProcessReportIOStat
    \/ ProcessReportsReturn

\* what is uploaded while the report worker is watched: a ttop file, an iostat file
\* that does not parse, one that does
WorkerUploads == {1, 3, 4}

\* the report worker at work while files are uploaded and deleted, reports are asked
\* for and deleted (one request after the other), files vanish from the uploads
\* directory and time passes
WorkerNext ==
    \/ HandlersNext({1}, WorkerUploads, {"jfr", "bogus"}, MaxWorkerFiles, MaxWorkerReports,
                    NoRequest)
    \/ \E path \in disk : NotParsing /\ RemoveOutside(path)
    \/ NotParsing /\ today < MaxClock /\ Tick
    \/ ReportWorkerNext

\* what is uploaded side by side: one content under two names
SideBySideUploads == {1, 2}

\* two uploads served side by side while a file or a report is deleted
UploadsNext ==
    \/ UploadNext(UploadSlots, SideBySideUploads, MaxUploadFiles, MaxUploadReports, TRUE)
    \/ FileDeleteNext(MaxUploadFiles, reportOp.pc = "idle")
    \/ ReportDeleteNext(MaxUploadReports, fileOp.pc = "idle")

\* a file is uploaded, under one name or another, and deleted, reports of it are
\* asked for and deleted, all side by side
DeletesNext ==
    HandlersNext({1}, SideBySideUploads, {"jfr"}, MaxDeleteFiles, MaxDeleteReports, TRUE)

\* what getDiskUsage returns: an error, or the fraction of the disk that is used
StatfsResults == {None} \cup {Some(u) : u \in DiskUsages}

\* performCleanup as far as it goes when it finds no file
CleanupRunNext ==
    \/ CleanupTick
    \/ \E usage \in StatfsResults : PerformCleanup(usage)
    \/ CleanupOldFiles
    \/ CleanupOldest
    \/ CleanupOrphans

\* cleanupOldFiles at its files (oks: whether os.Remove succeeds)
CleanupOldNext(oks) ==
    \/ \E ok \in oks : CleanupOldRemove(ok)
    \/ CleanupOldMark

\* the loop of performCleanup at its files
CleanupOldestNext(oks) ==
    \/ \E ok \in oks : CleanupOldestRemove(ok)
    \/ \E usage \in StatfsResults : CleanupOldestMark(usage)

\* cleanupOrphanedFileEntries at its files
CleanupPurgeNext == \E fk \in BOOLEAN : CleanupPurge(fk)

\* what is uploaded while orphaned records are cleaned up: a ttop file, which gets a
\* report, and a file of unknown type, which gets none
OrphanUploads == {1, 6}

\* what is uploaded while old files are cleaned up: two files that get no report
CleanupUploads == {2, 6}

\* the cleanup worker at work, its ticker firing at any time, while files are uploaded
\* and a report is asked for, one request after the other
OrphansNext ==
    \/ UploadNext({1}, OrphanUploads, MaxOrphanFiles, MaxOrphanReports, NoRequest)
    \/ ReportCreateNext({"jfr"}, MaxOrphanFiles, MaxOrphanReports, NoRequest)
    \/ CleanupRunNext
    \/ CleanupOldestNext({TRUE})
    \/ CleanupPurgeNext

\* the cleanup worker at work, its ticker firing at any time, while files are uploaded
\* and deleted, one request after the other, the retention period is set to no day
\* at all, and time passes
CleanupNext ==
    \/ UploadNext({1}, CleanupUploads, MaxCleanupFiles, MaxCleanupReports, NoRequest)
    \/ FileDeleteNext(MaxCleanupDeletes, NoRequest)
    \/ today < MaxCleanupClock /\ Tick
    \/ HandleSettings(2)
    \/ CleanupRunNext
    \/ CleanupOldNext({TRUE})
    \/ CleanupOldestNext({TRUE})
    \/ CleanupPurgeNext

\* settings are posted, the goroutines they start run TriggerCleanup, and the cleanup
\* worker, woken by its ticker or by a trigger, finds no file
SettingsNext ==
    \/ \E q \in DOMAIN SettingsRequests : goTrigger < MaxGoroutines /\ HandleSettings(q)
    \/ TriggerCleanup
    \/ CleanupTriggered
    \/ CleanupRunNext

\* the steps of performCleanup once it has been called, os.Remove succeeding or not
CleanerNext ==
    \/ \E usage \in StatfsResults : PerformCleanup(usage)
    \/ CleanupOldFiles
    \/ CleanupOldest
    \/ CleanupOrphans
    \/ CleanupOldNext({TRUE, FALSE})
    \/ CleanupOldestNext({TRUE, FALSE})
    \/ CleanupPurgeNext

\* the cleanup worker is between two calls of performCleanup
CleanerWaits == NoRequest /\ cleaner.pc = "idle"

\* files are uploaded, the retention period is set to no day at all and time passes
\* while the cleanup worker waits for its ticker; the ticker fires and performCleanup
\* runs, os.Remove failing at any of its files
LoopNext ==
    \/ UploadNext({1}, CleanupUploads, MaxLoopFiles, MaxCleanupReports, CleanerWaits)
    \/ CleanerWaits /\ today < MaxCleanupClock /\ Tick
    \/ CleanerWaits /\ HandleSettings(2)
    \/ NoRequest /\ CleanupTick
    \/ CleanerNext

\* getDiskUsage on a disk of which three tenths are used by others and two tenths by
\* each file of the uploads directory
DiskUsedBy(files) == <<3 + 2 * Cardinality(files), 10>>

\* files are uploaded and time passes while the cleanup worker, its ticker firing at
\* any time, finds the disk as full as the uploaded files make it
PressureNext ==
    \/ UploadNext({1}, CleanupUploads, MaxPressureFiles, MaxCleanupReports, NoRequest)
    \/ today < MaxPressureClock /\ Tick
    \/ CleanupTick
    \/ PerformCleanup(Some(DiskUsedBy(disk)))
    \/ CleanupOldFiles
    \/ CleanupOldest
    \/ CleanupOldestRemove(TRUE)
    \/ CleanupOldestMark(Some(DiskUsedBy(disk)))
    \/ CleanupOrphans
    \/ CleanupPurgeNext

\* HandleRedetectFileType
RedetectNext(maxFiles, maxReports) ==
    \/ \E id \in 1..maxFiles :
          NotParsing /\ nextReportID <= maxReports /\ HandleRedetectGet(id)
    \/ NotParsing /\ HandleRedetectUpdate
    \/ \E fk \in BOOLEAN : NotParsing /\ HandleRedetectReport(fk)

\* what is uploaded while file types are detected again: a ttop file, an iostat file,
\* and one content under the names of a jfr file, a text file and an archive
RedetectUploads == {1, 3, 5, 6, 7}

\* file types are detected again while files are uploaded and deleted and reports are
\* deleted, these one request after the other
RedetectsNext ==
    \/ UploadNext({1}, RedetectUploads, MaxRedetectFiles, MaxRedetectReports, NoRequest)
    \/ FileDeleteNext(MaxRedetectFiles, NoRequest)
    \/ ReportDeleteNext(MaxRedetectReports, NoRequest)
    \/ RedetectNext(MaxRedetectFiles, MaxRedetectReports)

----------------------------------------------------------------------------
(* Specifications: one function runs, the variables of the others stay as they are *)

\* before any of the functions is called
Init == IOStatInit /\ TTopInit /\ DetectInit /\ TwiceInit /\ ServerInit

SpecIOStat == Init /\ [][IOStatNext]_vars

SpecIOStatSeries == Init /\ [][IOStatSeriesNext]_vars

SpecTTop == Init /\ [][TTopNext]_vars

SpecTTopSeries == Init /\ [][TTopSeriesNext]_vars

SpecTTopRows == Init /\ [][TTopRowNext]_vars

SpecDetect == Init /\ [][DetectNext]_vars

SpecTwice == Init /\ [][TwiceNext]_vars

SpecWorker == Init /\ [][WorkerNext]_vars

SpecUploads == Init /\ [][UploadsNext]_vars

SpecDeletes == Init /\ [][DeletesNext]_vars

SpecOrphans == Init /\ [][OrphansNext]_vars

SpecCleanup == Init /\ [][CleanupNext]_vars

SpecSettings == Init /\ [][SettingsNext]_vars

SpecRedetect == Init /\ [][RedetectsNext]_vars
SpecPressure == Init /\ [][PressureNext]_vars
\* the goroutine of the cleanup worker is scheduled as long as it has a step to take
SpecLoop == Init /\ [][LoopNext]_vars /\ WF_vars(CleanerNext)

----------------------------------------------------------------------------
(* The words of the claims about ParseIOStat, read off the input lines themselves *)

\* the shape of a line: computed from its text, not by the parser
IOStatShapeOf(raw) ==
    LET f == Fields(raw)
    IN  [blank     |-> f = <<>>,
         linux     |-> Contains(raw, Str_Linux),
         timestamp |-> Len(f) >= 2 /\ Len(f[1]) = 8 /\ Count(f[1], "/") = 2,
         avgcpu    |-> f # <<>> /\ HasPrefix(f[1], Str_avgcpu),
         device    |-> f # <<>> /\ HasPrefix(f[1], Str_Device),
         nFields   |-> Len(f),
         floats    |-> {k \in 1..Len(f) : ParseFloat(f[k]).ok},
         numbers   |-> [k \in 1..Len(f) |-> ParseFloat(f[k]).val]]

IOStatShape == <<>> \o [i \in IOStatLineNumbers |-> IOStatShapeOf(IOStatLines[i])]

\* a data row: not blank, not a timestamp, `avg-cpu:` or `Device` line
IsRow(i) ==
    LET S == IOStatShape[i]
    IN  ~S.blank /\ ~S.timestamp /\ ~S.avgcpu /\ ~S.device

\* the step in which the scanner delivers line i
Delivered(i) == ioPc = "scan" /\ ioInput' = Append(ioInput, i)

\* the step in which the scanner has no more line to deliver
InputEnds == ioPc = "scan" /\ ioPc' = "done" /\ ioInput' = ioInput

\* line i, about to be delivered, is the first line of the input that contains "Linux"
FirstLinux(i) ==
    IOStatShape[i].linux /\ \A j \in 1..Len(ioInput) : ~IOStatShape[ioInput[j]].linux

\* a snapshot is open and has no CPU statistics yet
LacksCPU == ioCurrent # None /\ ioCurrent[1].CPUStats = None

\* a snapshot is open and has its CPU statistics
HasCPU == ioCurrent # None /\ ioCurrent[1].CPUStats # None

\* e is an error with this message for this line
IsError(e, msg, n) == e # None /\ e[1].msg = msg /\ e[1].line = n

\* the messages that contain "expected CPU statistics after timestamp"
ExpectedCPUAfterTimestamp ==
    {"expected CPU statistics after timestamp, but found another timestamp",
     "expected CPU statistics after timestamp, but reached end of file"}

\* the loop goes on to the next line and nothing but the line count has changed
LineIgnored ==
    /\ ioPc' = "scan"
    /\ ioErr' = None
    /\ UNCHANGED <<ioSnapshots, ioCurrent, systemInfo, inDeviceSection, expectingCPUStats>>

----------------------------------------------------------------------------
(* C1 *)

\* C1 as claimed: while the open snapshot has no CPU statistics, every timestamp line
\* that arrives fails with a message containing "expected CPU statistics after
\* timestamp" and that line's number, the end of the input fails with "... but reached
\* end of file", and no return is a success.
C1_AsClaimed ==
    [][/\ \A i \in IOStatLineNumbers :
            (Delivered(i) /\ LacksCPU /\ IOStatShape[i].timestamp)
            => /\ ioErr' # None
               /\ ioErr'[1].msg \in ExpectedCPUAfterTimestamp
               /\ ioErr'[1].line = Len(ioInput')
       /\ (InputEnds /\ LacksCPU)
            => IsError(ioErr',
                 "expected CPU statistics after timestamp, but reached end of file",
                 Len(ioInput))
       /\ (LacksCPU /\ ioPc' = "done") => (ioErr' # None /\ ioData' = None)]_vars

\* C1 amended: the same, for every timestamp line other than the one that is taken as
\* the system-info line (the first line of the input that contains "Linux").
C1_MissingCPUFails ==
    [][/\ \A i \in IOStatLineNumbers :
            (Delivered(i) /\ LacksCPU /\ IOStatShape[i].timestamp /\ ~FirstLinux(i))
            => /\ ioErr' # None
               /\ ioErr'[1].msg \in ExpectedCPUAfterTimestamp
               /\ ioErr'[1].line = Len(ioInput')
       /\ (InputEnds /\ LacksCPU)
            => IsError(ioErr',
                 "expected CPU statistics after timestamp, but reached end of file",
                 Len(ioInput))
       /\ (LacksCPU /\ ioPc' = "done") => (ioErr' # None /\ ioData' = None)]_vars

\* a second timestamp line, on line 3 after a blank line, has made the parse fail
C1_Witness ==
    /\ IsError(ioErr,
         "expected CPU statistics after timestamp, but found another timestamp", 3)
    /\ IOStatShape[ioInput[2]].blank

----------------------------------------------------------------------------
(* C2 *)

\* C2: every snapshot of a result returned without error has its CPUStats set.
C2_EverySnapshotHasCPU ==
    (ioPc = "done" /\ ioErr = None)
    => /\ ioData # None
       /\ \A k \in 1..Len(ioData[1].Snapshots) : ioData[1].Snapshots[k].CPUStats # None

\* a result of two snapshots has been returned without error
C2_Witness ==
    /\ ioPc = "done"
    /\ ioErr = None
    /\ ioData # None
    /\ Len(ioData[1].Snapshots) = 2

----------------------------------------------------------------------------
(* C3 *)

\* what an `avg-cpu:` line does as the header of the CPU row: it only clears
\* inDeviceSection
SkippedAsHeader ==
    /\ ioPc' = "scan"
    /\ ioErr' = None
    /\ inDeviceSection' = FALSE
    /\ UNCHANGED <<ioSnapshots, ioCurrent, systemInfo, expectingCPUStats>>

----------------------------------------------------------------------------
(* C4 *)

\* a row that is no device row: not 23 fields, or one of fields 1 to 22 is no number
BadDeviceRow(i) ==
    LET S == IOStatShape[i]
    IN  IsRow(i) /\ (S.nFields # 23 \/ ~(2..23 \subseteq S.floats))

----------------------------------------------------------------------------
(* C5 *)

\* the CPUStats that the six numbers of line i make
CPUStatsOf(i) ==
    LET v == IOStatShape[i].numbers
    IN  [User |-> v[1], Nice |-> v[2], System |-> v[3], IOWait |-> v[4],
         Steal |-> v[5], Idle |-> v[6]]

\* what a row does to a snapshot that expects its CPU row: it fails on a field count
\* other than 6 and on a field that is no float, and else gives the CPU statistics
TakenAsCPURow(i) ==
    LET S == IOStatShape[i]
    IN  IF S.nFields # 6
        THEN /\ IsError(ioErr', "expected CPU statistics with 6 fields, got %d fields",
                        Len(ioInput'))
             /\ ioErr'[1].arg = S.nFields
        ELSE IF ~(1..6 \subseteq S.floats)
        THEN IsError(ioErr', "failed to parse CPU statistics", Len(ioInput'))
        ELSE /\ ioErr' = None
             /\ ioCurrent' # None
             /\ ioCurrent'[1].CPUStats = Some(CPUStatsOf(i))

\* C5 as claimed: while the open snapshot expects its CPU row, every row is taken as
\* the CPU row.
C5_AsClaimed ==
    [][\A i \in IOStatLineNumbers :
         (Delivered(i) /\ LacksCPU /\ IsRow(i)) => TakenAsCPURow(i)]_vars

\* C5 amended: the same for every row that is not taken as the system-info line.
C5_CPURow ==
    [][\A i \in IOStatLineNumbers :
         (Delivered(i) /\ LacksCPU /\ IsRow(i) /\ ~FirstLinux(i)) => TakenAsCPURow(i)]_vars

\* a CPU row of 4 fields has made the parse fail
C5_Witness ==
    /\ ioErr # None
    /\ ioErr[1].msg = "expected CPU statistics with 6 fields, got %d fields"
    /\ ioErr[1].arg = 4

----------------------------------------------------------------------------
(* C6 *)

\* C6: an error names the number of the last line delivered, blank lines counted, and
\* comes with no report data and ends the parse.
C6_ErrorsNameLineAndAreTerminal ==
    ioErr # None
    => /\ ioErr[1].line = Len(ioInput)
       /\ ioData = None
       /\ ioPc = "done"

\* the parse has failed after a blank line, with a snapshot already parsed
C6_Witness ==
    /\ ioErr # None
    /\ ioSnapshots # <<>>
    /\ \E j \in 1..Len(ioInput) : IOStatShape[ioInput[j]].blank

----------------------------------------------------------------------------
(* C7 *)

\* the k-th smallest member of a set of numbers
Nth(S, k) == CHOOSE x \in S : Cardinality({y \in S : y < x}) = k - 1

\* a set of numbers as the ascending sequence of its members
Ascending(S) == [k \in 1..Cardinality(S) |-> Nth(S, k)]

\* the time that the timestamp line i gives
TimeOf(i) ==
    LET f == Fields(IOStatLines[i])
        d == ParseDate(f[1])
        c == ParseClock(f[2])
    IN  [year |-> d.year, month |-> d.month, day |-> d.day,
         hour |-> c.hour, min |-> c.min, sec |-> c.sec]

\* the DeviceStats that the device row i gives
DeviceOf(i) ==
    LET f == Fields(IOStatLines[i])
    IN  [Device |-> f[1], values |-> [k \in 1..22 |-> IOStatShape[i].numbers[k + 1]]]

IsDeviceRow(i) ==
    LET S == IOStatShape[i]
    IN  IsRow(i) /\ S.nFields = 23 /\ 2..23 \subseteq S.floats

\* the places in the input of the lines that contain "Linux" first
SystemInfoPlaces(input) ==
    {j \in 1..Len(input) :
        /\ IOStatShape[input[j]].linux
        /\ \A h \in 1..(j - 1) : ~IOStatShape[input[h]].linux}

\* the snapshots that timestamp lines at the places ts, and the device rows at the
\* places rows, make: a snapshot per timestamp line, holding the device rows up to
\* the next timestamp line
SnapshotsOf(input, ts, rows) ==
    LET at == Ascending(ts)
    IN  [k \in 1..Len(at) |->
           LET upto == IF k < Len(at) THEN at[k + 1] ELSE Len(input) + 1
               mine == Ascending({j \in rows : at[k] < j /\ j < upto})
           IN  [Timestamp |-> TimeOf(input[at[k]]),
                Devices   |-> [r \in 1..Len(mine) |-> DeviceOf(input[mine[r]])]]]

\* the snapshots of the input as claimed: every timestamp line, and every device row
\* that follows a Device header of its snapshot
ClaimedSnapshots(input) ==
    LET ts   == {j \in 1..Len(input) : IOStatShape[input[j]].timestamp}
        rows == {j \in 1..Len(input) :
                    /\ IsDeviceRow(input[j])
                    /\ \E h \in 1..(j - 1) :
                          /\ IOStatShape[input[h]].device
                          /\ \A m \in h..j : m \notin ts}
    IN  SnapshotsOf(input, ts, rows)

\* the snapshots of the input as amended: every timestamp line that is not taken as
\* the system-info line, and every device row that follows a Device header of its
\* snapshot with no `avg-cpu:` header in between
AmendedSnapshots(input) ==
    LET ts   == {j \in 1..Len(input) : IOStatShape[input[j]].timestamp}
                   \ SystemInfoPlaces(input)
        rows == {j \in 1..Len(input) :
                    /\ IsDeviceRow(input[j])
                    /\ j \notin SystemInfoPlaces(input)
                    /\ \E h \in 1..(j - 1) :
                          /\ IOStatShape[input[h]].device
                          /\ h \notin SystemInfoPlaces(input)
                          /\ \A m \in h..j :
                                m \notin ts /\ ~IOStatShape[input[m]].avgcpu}
    IN  SnapshotsOf(input, ts, rows)

\* the timestamps and devices of the returned snapshots
ReturnedSnapshots ==
    [k \in 1..Len(ioData[1].Snapshots) |->
        [Timestamp |-> ioData[1].Snapshots[k].Timestamp,
         Devices   |-> ioData[1].Snapshots[k].Devices]]

----------------------------------------------------------------------------
(* The words of the claims about ParseTTop, read off the input lines themselves *)

\* the shape of a line: computed from its text, not by the parser
TTopShapeOf(raw) ==
    LET t == TrimSpace(raw)
        f == Fields(raw)
    IN  [blank   |-> f = <<>>,
         header  |-> HasPrefix(t, Str_topPrefix),
         clock   |-> IF Len(f) >= 3 THEN ParseClock(f[3]) ELSE ParseClock(<<>>),
         counts  |-> HasPrefix(t, Str_Threads),
         memory  |-> HasPrefix(t, Str_MiBMem),
         swap    |-> HasPrefix(t, Str_MiBSwap),
         commas  |-> Count(t, ","),
         nFields |-> Len(f),
         pid     |-> IF f = <<>> THEN Atoi(<<>>) ELSE Atoi(f[1]),
         user    |-> IF Len(f) >= 2 THEN f[2] ELSE <<>>,
         command |-> IF Len(f) >= 12 THEN Join(SubSeq(f, 12, Len(f)), Str_SP) ELSE <<>>]

TTopShape == <<>> \o [i \in TTopLineNumbers |-> TTopShapeOf(TTopLines[i])]

\* a thread row that is kept: at least 12 fields, the first one an integer
IsKeptRow(i) ==
    LET S == TTopShape[i]
    IN  ~S.header /\ S.nFields >= 12 /\ S.pid.ok

\* a `top - ` line without a time, a `Threads:` line without five parts, a `MiB Mem`
\* line without four parts
IsBadHeader(i) == TTopShape[i].header /\ ~TTopShape[i].clock.ok

IsBadCounts(i) == TTopShape[i].counts /\ TTopShape[i].commas # 4

IsBadMemory(i) == TTopShape[i].memory /\ TTopShape[i].commas # 3

\* a line that is neither blank nor a header, counts, memory or swap line, and is not
\* kept as a thread row
IsDroppedRow(i) ==
    LET S == TTopShape[i]
    IN  ~S.blank /\ ~S.header /\ ~S.counts /\ ~S.memory /\ ~S.swap /\ ~IsKeptRow(i)

\* the snapshots that the `top - ` lines of the input and the kept rows after them
\* make: the time of day of each header (<<>> where it has none), and who and what
\* each kept row up to the next header names
TTopSnapshotsOf(input) ==
    LET at == Ascending({j \in 1..Len(input) : TTopShape[input[j]].header})
    IN  [k \in 1..Len(at) |->
           LET upto == IF k < Len(at) THEN at[k + 1] ELSE Len(input) + 1
               mine == Ascending({j \in (at[k] + 1)..(upto - 1) : IsKeptRow(input[j])})
               c    == TTopShape[input[at[k]]].clock
           IN  [Clock   |-> IF c.ok THEN <<c.hour, c.min, c.sec>> ELSE <<>>,
                Threads |-> [r \in 1..Len(mine) |->
                               [PID     |-> TTopShape[input[mine[r]]].pid.val,
                                User    |-> TTopShape[input[mine[r]]].user,
                                Command |-> TTopShape[input[mine[r]]].command]]]]

\* the same of the snapshots in a sequence that ParseTTop has built: snapshot k has
\* a time of day of its own when the k-th header of the input has one
TTopSnapshotsIn(snapshots, input) ==
    LET at == Ascending({j \in 1..Len(input) : TTopShape[input[j]].header})
    IN  [k \in 1..Len(snapshots) |->
           LET ts == snapshots[k].Timestamp
           IN  [Clock   |-> IF k <= Len(at) /\ TTopShape[input[at[k]]].clock.ok
                            THEN <<ts.hour, ts.min, ts.sec>>
                            ELSE <<>>,
                Threads |-> [r \in 1..Len(snapshots[k].Threads) |->
                               [PID     |-> snapshots[k].Threads[r].PID,
                                User    |-> snapshots[k].Threads[r].User,
                                Command |-> snapshots[k].Threads[r].Command]]]]

\* what ParseTTop has returned as snapshots: none when it returned no result
TTopReturned == IF ttData = None THEN <<>> ELSE ttData[1].Snapshots

----------------------------------------------------------------------------
(* C8 *)

\* C8 as claimed: whenever ParseTTop has returned, it has returned one snapshot per
\* `top - ` line of the input, in order and with the last one, each holding the kept
\* thread rows between its header and the next, in order.
C8_AsClaimed ==
    ttPc = "done" => TTopSnapshotsIn(TTopReturned, ttInput) = TTopSnapshotsOf(ttInput)

\* C8 amended: the same whenever ParseTTop has returned a result, which it does unless
\* the scanner reports a read fault; then it returns no snapshot at all.
C8_SnapshotPerHeader ==
    /\ (ttPc = "done" /\ ttScanErr = None) =>
           /\ ttData # None
           /\ TTopSnapshotsIn(ttData[1].Snapshots, ttInput) = TTopSnapshotsOf(ttInput)
    /\ (ttPc = "done" /\ ttScanErr # None) => ttData = None

\* a row that would be kept came before the first header, and two snapshots have been
\* returned, the first with one kept row and the second with none
C8_Witness ==
    /\ ttPc = "done"
    /\ ttData # None
    /\ Len(ttData[1].Snapshots) = 2
    /\ Len(ttData[1].Snapshots[1].Threads) = 1
    /\ ttData[1].Snapshots[2].Threads = <<>>
    /\ IsKeptRow(ttInput[1])

----------------------------------------------------------------------------
(* C9 *)

\* C9: ParseTTop goes on to the end of every input and returns a result and no error,
\* whatever malformed lines it has met; it returns an error, and no result, only when
\* the scanner reports a read fault, and the error is that fault.
C9_OnlyReadFaultFails ==
    /\ ttPc = "scan" => (ttData = None /\ ttErr = None /\ ttScanErr = None)
    /\ (ttPc = "done" /\ ttScanErr = None) => (ttData # None /\ ttErr = None)
    /\ (ttPc = "done" /\ ttScanErr # None) =>
           /\ ttData = None
           /\ ttErr # None
           /\ ttErr[1].msg = "error reading ttop content"
           /\ ttErr[1].cause = ttScanErr[1]

\* a result has been returned for an input with a header without a time, then a
\* malformed counts or memory line, then a row that is dropped
C9_Witness ==
    /\ ttPc = "done"
    /\ ttData # None
    /\ ttErr = None
    /\ \E p, q, r \in 1..Len(ttInput) :
          /\ p < q /\ q < r
          /\ IsBadHeader(ttInput[p])
          /\ IsBadCounts(ttInput[q]) \/ IsBadMemory(ttInput[q])
          /\ IsDroppedRow(ttInput[r])

----------------------------------------------------------------------------
(* The words of the claims about DetectFileType, read off the file name and the
   archive themselves *)

\* the file name has an archive extension
HasArchiveExtension(filename) ==
    \E x \in {Str_dotzip, Str_dottar, Str_dottgz, Str_dotgz} : HasSuffix(ToLower(filename), x)

\* the rules for a name: extension .jfr; `ttop` in the base name and extension .txt or
\* none; `iostat` in the base name
MatchesJFR(name) == ToLower(Ext(name)) = Str_dotjfr

MatchesTTop(name) ==
    Contains(ToLower(Base(name)), Str_ttop) /\ ToLower(Ext(name)) \in {Str_dottxt, <<>>}

MatchesIOStat(name) == Contains(ToLower(Base(name)), Str_iostat)

\* the entries of the archive that the content is, none if it is no readable archive
ArchiveEntries(content) ==
    IF content.zip # None THEN content.zip[1]
    ELSE IF content.gzip # None THEN content.gzip[1]
    ELSE content.tar

\* the regular files among the entries
RegularEntries(content) ==
    {k \in 1..Len(ArchiveEntries(content)) : ArchiveEntries(content)[k].Type = "reg"}

\* the entries that count: in a ZIP archive all but the directories, in a TAR archive
\* the regular files
CountedEntries(content) ==
    {k \in 1..Len(ArchiveEntries(content)) :
        IF content.zip # None
        THEN ArchiveEntries(content)[k].Type # "dir"
        ELSE ArchiveEntries(content)[k].Type = "reg"}

\* the type that the names of the entries at the places ks decide, by priority
DecidedBy(content, ks) ==
    LET names == {ArchiveEntries(content)[k].Name : k \in ks}
    IN  IF \E n \in names : MatchesJFR(n) THEN "jfr"
        ELSE IF \E n \in names : MatchesTTop(n) THEN "ttop"
        ELSE IF \E n \in names : MatchesIOStat(n) THEN "iostat"
        ELSE "archive"

----------------------------------------------------------------------------
(* C10 *)

----------------------------------------------------------------------------
(* C11 *)

\* the first SniffLimit bytes of the content, all of it when it is shorter
SniffedBytes(content) ==
    [k \in 1..(IF Len(content.raw) < SniffLimit THEN Len(content.raw) ELSE SniffLimit) |->
        content.raw[k]]

\* the TTop heuristic: `PID`, `USER` and one of `TIME`, `%CPU`
LooksLikeTTop(text) ==
    /\ Contains(text, Str_PID)
    /\ Contains(text, Str_USER)
    /\ \E w \in {Str_TIME, Str_pctCPU} : Contains(text, w)

\* the IOStat heuristic: `Device` and one of `tps`, `kB_read/s`, `r/s`
LooksLikeIOStat(text) ==
    /\ Contains(text, Str_Device)
    /\ \E w \in {Str_tps, Str_kBreads, Str_rps} : Contains(text, w)

\* what the rules for a name say of a file name
ByName(name) ==
    IF MatchesJFR(name) THEN "jfr"
    ELSE IF MatchesTTop(name) THEN "ttop"
    ELSE IF MatchesIOStat(name) THEN "iostat"
    ELSE "unknown"

\* a call has returned for a file name with no archive extension
NonArchiveDone == dtPc = "done" /\ ~HasArchiveExtension(dtFilename)

\* C11: for a file name with no archive extension and a content that is not empty,
\* the result is ttop when the first SniffLimit bytes match the TTop heuristic, else
\* iostat when they match the IOStat heuristic, whatever the file name is; the file
\* name decides only when neither heuristic matches, and the bytes after the first
\* SniffLimit have no part in the result.
C11_ContentBeforeName ==
    (NonArchiveDone /\ Len(dtContent.raw) > 0) =>
        dtResult = IF LooksLikeTTop(SniffedBytes(dtContent)) THEN "ttop"
                   ELSE IF LooksLikeIOStat(SniffedBytes(dtContent)) THEN "iostat"
                   ELSE ByName(dtFilename)

\* a file named .jfr whose first SniffLimit bytes match the IOStat heuristic and whose
\* later bytes hold the TTop words has been given, and the result is iostat
C11_Witness ==
    /\ NonArchiveDone
    /\ MatchesJFR(dtFilename)
    /\ Len(dtContent.raw) > SniffLimit
    /\ LooksLikeTTop(dtContent.raw)
    /\ ~LooksLikeTTop(SniffedBytes(dtContent))
    /\ dtResult = "iostat"

----------------------------------------------------------------------------
(* C12 *)

\* the content is not empty and its first SniffLimit bytes match one of the heuristics
ContentDecides(content) ==
    /\ Len(content.raw) > 0
    /\ LooksLikeTTop(SniffedBytes(content)) \/ LooksLikeIOStat(SniffedBytes(content))

\* C12 as claimed: for a file name with no archive extension the result is jfr exactly
\* when the extension is .jfr in any letter case, whatever the content is.
C12_AsClaimed ==
    NonArchiveDone => (dtResult = "jfr" <=> MatchesJFR(dtFilename))

\* C12 amended: for a file name with no archive extension the result is jfr exactly
\* when the extension is .jfr in any letter case and the content is empty or matches
\* neither heuristic in its first SniffLimit bytes; no byte of the content can make
\* the result jfr.
C12_JFRByExtensionAfterContent ==
    NonArchiveDone =>
        (dtResult = "jfr" <=> (MatchesJFR(dtFilename) /\ ~ContentDecides(dtContent)))

\* a file named .JFR in upper case has been given with bytes that match the TTop
\* heuristic, and the result is ttop
C12_Witness ==
    /\ NonArchiveDone
    /\ MatchesJFR(dtFilename)
    /\ Ext(dtFilename) # Str_dotjfr
    /\ ContentDecides(dtContent)
    /\ dtResult = "ttop"

----------------------------------------------------------------------------
(* C13 *)

\* no archive reader finds an entry in the content
Unreadable(content) == content.zip = None /\ content.gzip = None /\ content.tar = <<>>

\* C13: for every file name and every content, an empty or cut-off archive too,
\* DetectFileType returns one of the five tags jfr, ttop, iostat, archive, unknown;
\* it returns archive only for a file name with an archive extension and unknown only
\* for a file name without one.
C13_AlwaysOneOfFiveTags ==
    dtPc = "done" =>
        /\ dtResult \in {"jfr", "ttop", "iostat", "archive", "unknown"}
        /\ dtResult = "archive" => HasArchiveExtension(dtFilename)
        /\ dtResult = "unknown" => ~HasArchiveExtension(dtFilename)

\* a file name with an archive extension has been given with the bytes of a ZIP
\* archive cut off before its directory, and the result is archive
C13_Witness ==
    /\ dtPc = "done"
    /\ HasArchiveExtension(dtFilename)
    /\ Unreadable(dtContent)
    /\ Len(dtContent.raw) > 2
    /\ dtResult = "archive"

----------------------------------------------------------------------------
(* C14 *)

\* the name of the only entry that counts in the archive that the content is
OnlyEntry(content) ==
    ArchiveEntries(content)[CHOOSE k \in CountedEntries(content) : TRUE].Name

\* an archive with one entry that counts has been given under an archive name
OneEntryDone ==
    /\ dtPc = "done"
    /\ HasArchiveExtension(dtFilename)
    /\ Cardinality(CountedEntries(dtContent)) = 1

\* C14: where a name alone decides - the file name, for a file name with no archive
\* extension and a content that is empty or matches neither heuristic; the name of
\* an archive entry - the name is classified without regard to letter case, in this
\* order: extension .jfr gives jfr; else `ttop` in the base name with extension .txt
\* or none gives ttop; else `iostat` in the base name gives iostat; else unknown,
\* which for the only entry of an archive makes the result archive.
C14_NameRuleInOrder ==
    /\ (NonArchiveDone /\ ~ContentDecides(dtContent)) => dtResult = ByName(dtFilename)
    /\ OneEntryDone =>
           dtResult = IF ByName(OnlyEntry(dtContent)) = "unknown" THEN "archive"
                      ELSE ByName(OnlyEntry(dtContent))

\* an archive whose only entry is named `ttop` with the extension .TXT in upper case
\* has been given, and the result is ttop
C14_Witness ==
    /\ OneEntryDone
    /\ MatchesTTop(OnlyEntry(dtContent))
    /\ Ext(OnlyEntry(dtContent)) # Str_dottxt
    /\ Ext(OnlyEntry(dtContent)) # <<>>
    /\ dtResult = "ttop"

----------------------------------------------------------------------------
(* C15 *)

\* the numbers in fields 8 and 9 of a line, counted from 0: computed from its text
TTopRowNumbers ==
    <<>> \o [i \in TTopLineNumbers |->
               LET f == Fields(TTopLines[i])
               IN  [cpu |-> IF Len(f) >= 9 THEN ParseFloat(f[9]) ELSE ParseFloat(<<>>),
                    mem |-> IF Len(f) >= 10 THEN ParseFloat(f[10]) ELSE ParseFloat(<<>>)]]

\* the thread row that a kept line makes
RowOf(i) ==
    [PID     |-> TTopShape[i].pid.val,
     User    |-> TTopShape[i].user,
     CPU     |-> IF TTopRowNumbers[i].cpu.ok THEN TTopRowNumbers[i].cpu.val ELSE <<0, 1>>,
     MEM     |-> IF TTopRowNumbers[i].mem.ok THEN TTopRowNumbers[i].mem.val ELSE <<0, 1>>,
     Command |-> TTopShape[i].command]

\* the scanner delivers line i while a snapshot is open
DeliveredInSnapshot(i) ==
    ttPc = "scan" /\ ttInput' = Append(ttInput, i) /\ ttCurrent # None

\* C15: a line delivered while a snapshot is open, and not a `top - ` line, is added
\* to the rows of the snapshot exactly when it has at least 12 fields and an integer
\* first field; the row takes 0.0 for a %CPU (field 8) and for a %MEM (field 9) that
\* is no number, each on its own, and fields 11 onward joined by single spaces as
\* command; any other line leaves the rows as they are and raises no error, and the
\* snapshot stays open.
C15_RowKeptOrDropped ==
    [][\A i \in TTopLineNumbers :
          (DeliveredInSnapshot(i) /\ ~TTopShape[i].header) =>
              /\ ttPc' = "scan" /\ ttErr' = None /\ ttData' = None
              /\ ttSnapshots' = ttSnapshots
              /\ ttCurrent' # None
              /\ ttCurrent'[1].Threads =
                     IF IsKeptRow(i) THEN Append(ttCurrent[1].Threads, RowOf(i))
                     ELSE ttCurrent[1].Threads]_vars

\* a row with no %CPU number and a row with no %MEM number and a three-word command
\* have been kept, the first with 0.0 as CPU only and the second with 0.0 as MEM
\* only, and the line of 12 fields between them, whose first field is no integer,
\* has been dropped
C15_Witness ==
    /\ ttPc = "scan"
    /\ ttCurrent # None
    /\ Len(ttInput) = 4
    /\ IsKeptRow(ttInput[2])
    /\ IsDroppedRow(ttInput[3]) /\ TTopShape[ttInput[3]].nFields >= 12
    /\ IsKeptRow(ttInput[4])
    /\ Len(ttCurrent[1].Threads) = 2
    /\ ttCurrent[1].Threads[1].CPU = <<0, 1>> /\ ttCurrent[1].Threads[1].MEM # <<0, 1>>
    /\ ttCurrent[1].Threads[2].CPU # <<0, 1>> /\ ttCurrent[1].Threads[2].MEM = <<0, 1>>
    /\ Count(ttCurrent[1].Threads[2].Command, " ") = 2

----------------------------------------------------------------------------
(* C16 *)

\* the labels of a `Threads:` line, in the order of the line
CountLabels == <<Str_total, Str_running, Str_sleeping, Str_stopped, Str_zombie>>

\* what a `Threads:` line holds: computed from its text.  Its parts are the pieces
\* between the commas of what follows `Threads:`; a part is a pair when it is a count
\* and a label.
TTopCountsOf(raw) ==
    LET t      == TrimSpace(raw)
        rest   == SubSeq(t, Len(Str_Threads) + 1, Len(t))
        parts  == Split(TrimSpace(rest), ",")
        f(k)   == Fields(parts[k])
        IsPair(k) == Len(f(k)) >= 2 /\ Atoi(f(k)[1]).ok
        CountOf(label) ==
            LET at == {k \in 1..Len(parts) : IsPair(k) /\ f(k)[2] = label}
            IN  IF at = {} THEN 0
                ELSE Atoi(f(CHOOSE k \in at : \A j \in at : j <= k)[1]).val
    IN  [parts      |-> Len(parts),
         wellFormed |-> /\ Len(parts) = 5
                        /\ \A k \in 1..5 : IsPair(k) /\ f(k)[2] = CountLabels[k],
         counts     |-> [Total    |-> CountOf(Str_total),
                         Running  |-> CountOf(Str_running),
                         Sleeping |-> CountOf(Str_sleeping),
                         Stopped  |-> CountOf(Str_stopped),
                         Zombie   |-> CountOf(Str_zombie)]]

TTopCounts ==
    <<>> \o [i \in TTopLineNumbers |->
               IF TTopShape[i].counts THEN TTopCountsOf(TTopLines[i])
               ELSE [parts |-> 0, wellFormed |-> FALSE, counts |-> <<>>]]

\* parsing goes on after the step, with the same snapshots behind the open one
TTopGoesOn ==
    /\ ttPc' = "scan" /\ ttErr' = None /\ ttData' = None
    /\ ttSnapshots' = ttSnapshots
    /\ ttCurrent' # None

\* C16 as claimed: a `Threads:` line delivered while a snapshot is open that is not
\* five well-formed `<count> <label>` pairs for total, running, sleeping, stopped and
\* zombie leaves the snapshot, its ThreadCounts too, as it was, and parsing goes on.
C16_AsClaimed ==
    [][\A i \in TTopLineNumbers :
          (DeliveredInSnapshot(i) /\ TTopShape[i].counts /\ ~TTopCounts[i].wellFormed) =>
              (TTopGoesOn /\ ttCurrent' = ttCurrent)]_vars

\* C16 amended: a `Threads:` line delivered while a snapshot is open leaves the
\* snapshot as it was when what follows `Threads:` is not five comma-separated parts;
\* a line of five parts sets ThreadCounts, with 0 for every label that no part gives
\* as a `<count> <label>` pair, and leaves the rest of the snapshot as it was; either
\* way parsing goes on.
C16_CountsSetByFiveParts ==
    [][\A i \in TTopLineNumbers :
          (DeliveredInSnapshot(i) /\ TTopShape[i].counts) =>
              /\ TTopGoesOn
              /\ ttCurrent' =
                     IF TTopCounts[i].parts = 5
                     THEN Some([ttCurrent[1] EXCEPT
                                   !.ThreadCounts = Some(TTopCounts[i].counts)])
                     ELSE ttCurrent]_vars

\* after a well-formed `Threads:` line with a running count, a line of five parts
\* that are not all pairs has been read, and the running count of the snapshot is 0
C16_Witness ==
    /\ ttPc = "scan"
    /\ ttCurrent # None
    /\ Len(ttInput) = 3
    /\ TTopCounts[ttInput[2]].wellFormed /\ TTopCounts[ttInput[2]].counts.Running > 0
    /\ TTopCounts[ttInput[3]].parts = 5 /\ ~TTopCounts[ttInput[3]].wellFormed
    /\ ttCurrent[1].ThreadCounts # None
    /\ ttCurrent[1].ThreadCounts[1].Running = 0
    /\ ttCurrent[1].ThreadCounts[1].Total > 0

----------------------------------------------------------------------------
(* C17 *)

\* a `MiB Mem` line that is not four comma-separated parts; a `MiB Swap` line that is
\* not three
IsBadSwap(i) == TTopShape[i].swap /\ TTopShape[i].commas # 2

IsBadMemoryOrSwap(i) == IsBadMemory(i) \/ IsBadSwap(i)

\* C17: a malformed `MiB Mem` or `MiB Swap` line delivered while a snapshot is open
\* leaves the SystemMemory of the snapshot exactly as it was: absent when it was
\* absent, and with every field, the available memory too, at its value.
C17_AsClaimed ==
    [][\A i \in TTopLineNumbers :
          (DeliveredInSnapshot(i) /\ IsBadMemoryOrSwap(i)) =>
              /\ TTopGoesOn
              /\ ttCurrent'[1].SystemMemory = ttCurrent[1].SystemMemory]_vars

\* a header and then a malformed `MiB Swap` line have been read, and the snapshot has
\* a SystemMemory whose available memory is not 0
C17_Witness ==
    /\ ttPc = "scan"
    /\ ttCurrent # None
    /\ Len(ttInput) = 2
    /\ TTopShape[ttInput[1]].header
    /\ IsBadSwap(ttInput[2])
    /\ ttCurrent[1].SystemMemory # None
    /\ ttCurrent[1].SystemMemory[1].MemAvail # <<0, 1>>

----------------------------------------------------------------------------
(* C18 *)

\* the values the wall clock can show
WallClockTimes == {WallClock[n] : n \in DOMAIN WallClock}

\* C18: a `top - ` line whose third field is no HH:MM:SS time, delivered with or
\* without a snapshot open, puts the open snapshot, if there is one, at the end of
\* the finished ones as it is, opens a new snapshot with no counts, no memory and no
\* rows, stamped with the time the wall clock shows, and raises no error.
C18_BadTimeHeaderOpensSnapshot ==
    [][\A i \in TTopLineNumbers :
          (ttPc = "scan" /\ ttInput' = Append(ttInput, i) /\ IsBadHeader(i)) =>
              /\ ttPc' = "scan" /\ ttErr' = None /\ ttData' = None
              /\ ttSnapshots' = IF ttCurrent # None THEN Append(ttSnapshots, ttCurrent[1])
                                ELSE ttSnapshots
              /\ ttCurrent' # None
              /\ ttCurrent'[1].Timestamp \in WallClockTimes
              /\ ttCurrent'[1].ThreadCounts = None
              /\ ttCurrent'[1].SystemMemory = None
              /\ ttCurrent'[1].Threads = <<>>]_vars

\* a header with a time, a kept row and a header without a time have been read: the
\* first snapshot is finished with its row and its own time of day, and the open one
\* has the time of the wall clock and no row
C18_Witness ==
    /\ ttPc = "scan"
    /\ Len(ttInput) = 3
    /\ TTopShape[ttInput[1]].header /\ TTopShape[ttInput[1]].clock.ok
    /\ IsKeptRow(ttInput[2])
    /\ IsBadHeader(ttInput[3])
    /\ Len(ttSnapshots) = 1
    /\ Len(ttSnapshots[1].Threads) = 1
    /\ ttSnapshots[1].Timestamp \notin WallClockTimes
    /\ ttCurrent # None
    /\ ttCurrent[1].Timestamp \in WallClockTimes
    /\ ttCurrent[1].Threads = <<>>

----------------------------------------------------------------------------
(* C19 *)

\* no line of the input is a timestamp line
NoTimestampLine == \A j \in 1..Len(ioInput) : ~IOStatShape[ioInput[j]].timestamp

\* C19: when ParseIOStat has returned for an input without a timestamp line, the
\* empty input too, it has returned a result with no snapshot, and no error,
\* whatever the other lines are.
C19_NoTimestampNoSnapshot ==
    (ioPc = "done" /\ NoTimestampLine) =>
        /\ ioErr = None
        /\ ioData # None
        /\ ioData[1].Snapshots = <<>>

\* ParseIOStat has returned no snapshot and no error for an input of an `avg-cpu:`
\* line, a `Device` line and rows that are no numbers, without a timestamp line
C19_Witness ==
    /\ ioPc = "done"
    /\ NoTimestampLine
    /\ \E j \in 1..Len(ioInput) : IOStatShape[ioInput[j]].avgcpu
    /\ \E j, k \in 1..Len(ioInput) :
          /\ j < k
          /\ IOStatShape[ioInput[j]].device
          /\ IsRow(ioInput[k])
          /\ IOStatShape[ioInput[k]].floats # 1..IOStatShape[ioInput[k]].nFields
          /\ IOStatShape[ioInput[k]].nFields > 6
    /\ ioErr = None
    /\ ioData # None
    /\ ioData[1].Snapshots = <<>>

----------------------------------------------------------------------------
(* C20 *)

\* the system information that an input gives: its first line that contains "Linux",
\* without the white space around it, and nothing when no line contains "Linux"
SystemInfoOf(input) ==
    IF SystemInfoPlaces(input) = {} THEN <<>>
    ELSE TrimSpace(IOStatLines[input[CHOOSE j \in SystemInfoPlaces(input) : TRUE]])

\* line i, about to be delivered, contains "Linux" and is not the first line to do so
LaterLinux(i) == IOStatShape[i].linux /\ ~FirstLinux(i)

\* what the rules for a timestamp line, an `avg-cpu:` line and a row make of line i
\* when it is the n-th line
ClassifiedAsUsual(i, n) ==
    LET S == IOStatShape[i]
    IN  IF S.timestamp
        THEN IF LacksCPU
             THEN IsError(ioErr', "expected CPU statistics after timestamp, but found another timestamp", n)
             ELSE /\ ioErr' = None
                  /\ ioCurrent' # None
                  /\ ioCurrent'[1].Timestamp = TimeOf(i)
                  /\ ioCurrent'[1].CPUStats = None
                  /\ ioCurrent'[1].Devices = <<>>
        ELSE IF S.avgcpu
        THEN IF ioCurrent = None THEN LineIgnored
             ELSE IF LacksCPU THEN ioErr' = None /\ ioCurrent' = ioCurrent
             ELSE IsError(ioErr', "unexpected CPU statistics header", n)
        ELSE IF LacksCPU
             THEN IsError(ioErr', "expected CPU statistics with 6 fields, got %d fields", n)
             ELSE IF ioCurrent # None /\ inDeviceSection
             THEN IsError(ioErr', "failed to parse device statistics", n)
             ELSE LineIgnored

\* C20: the system information is taken from the first line that contains "Linux"
\* and from no other: a later line that contains "Linux" leaves it as it is and is
\* classified by the rules for timestamp lines, `avg-cpu:` lines and rows; a result
\* that ParseIOStat returns holds that first line as SystemInfo, and an empty
\* SystemInfo when no line contains "Linux".
C20_SystemInfoCapturedOnce ==
    [][/\ \A i \in IOStatLineNumbers :
             /\ (Delivered(i) /\ FirstLinux(i)) => systemInfo' = TrimSpace(IOStatLines[i])
             /\ (Delivered(i) /\ LaterLinux(i)) =>
                    /\ systemInfo' = systemInfo
                    /\ ClassifiedAsUsual(i, Len(ioInput) + 1)
       /\ (InputEnds /\ ioData' # None) => ioData'[1].SystemInfo = SystemInfoOf(ioInput)]_vars

\* a result has been returned for an input with two different lines that contain
\* "Linux": its SystemInfo is the first of them, and the second, a timestamp line,
\* has made its only snapshot
C20_Witness ==
    /\ ioPc = "done"
    /\ ioData # None
    /\ \E p, q \in 1..Len(ioInput) :
          /\ p < q
          /\ p \in SystemInfoPlaces(ioInput)
          /\ IOStatShape[ioInput[q]].linux /\ IOStatShape[ioInput[q]].timestamp
          /\ \A j \in 1..Len(ioInput) : IOStatShape[ioInput[j]].timestamp => j = q
          /\ ioData[1].SystemInfo = TrimSpace(IOStatLines[ioInput[p]])
          /\ ioData[1].SystemInfo # TrimSpace(IOStatLines[ioInput[q]])
    /\ Len(ioData[1].Snapshots) = 1

----------------------------------------------------------------------------
(* C21 *)

\* both calls of ParseTTop on the same bytes have returned
TwiceTTopDone == ttFirst # None /\ ttPc = "done"

\* both calls of ParseIOStat on the same bytes have returned
TwiceIOStatDone == ioFirst # None /\ ioPc = "done"

\* the `top - ` lines of the input, in order: the k-th one opened the k-th snapshot
TwiceHeaders == SelectSeq(ttInput, LAMBDA i : TTopShape[i].header)

\* a snapshot without its timestamp
WithoutTimestamp(s) == [s EXCEPT !.Timestamp = ZeroTime]

\* the time of day of a timestamp
TimeOfDay(t) == <<t.hour, t.min, t.sec>>

\* the two calls of ParseTTop returned the same error, and the same snapshots in the
\* same order but for the timestamps, which Same(k, t1, t2) compares
TwiceTTopAgree(Same(_, _, _)) ==
    /\ ttErr = ttFirst[1].err
    /\ (ttData = None) <=> (ttFirst[1].data = None)
    /\ ttData # None =>
          LET one == ttFirst[1].data[1].Snapshots
              two == ttData[1].Snapshots
          IN  /\ Len(one) = Len(two)
              /\ Len(one) = Len(TwiceHeaders)
              /\ \A k \in 1..Len(one) :
                    /\ WithoutTimestamp(one[k]) = WithoutTimestamp(two[k])
                    /\ Same(k, one[k].Timestamp, two[k].Timestamp)

\* the two calls of ParseIOStat returned the same
TwiceIOStatAgree == ioData = ioFirst[1].data /\ ioErr = ioFirst[1].err

----------------------------------------------------------------------------
(* C22 *)

\* the step in which the worker stores the outcome of GenerateIOStatReport after
\* ParseIOStat has returned an error
IOStatParseFailed ==
    /\ worker.pc = "iostat"
    /\ ioPc = "done"
    /\ ioErr # None
    /\ worker'.pc = "loop"

----------------------------------------------------------------------------
(* C23 *)

\* the ids of a sequence of rows
IDsOf(rows) == {rows[j].ID : j \in 1..Len(rows)}

\* processReports has just run GetPendingReports: its rows are the pending reports,
\* each once, the older before the newer
C23_Fetch ==
    (worker.pc = "idle" /\ worker'.pc = "loop") =>
        LET rows == worker'.batch
        IN  /\ worker'.queue = rows
            /\ IDsOf(rows) = {r \in DOMAIN dbReports : dbReports[r].Status = "pending"}
            /\ \A a, b \in 1..Len(rows) :
                  a < b => /\ rows[a].ID # rows[b].ID
                           /\ dbReports[rows[a].ID].CreatedTime <=
                                  dbReports[rows[b].ID].CreatedTime

\* what is left to process is the end of the rows: the loop takes the first row left,
\* sets its report to `running`, and never comes back to a row
C23_Running ==
    /\ \E k \in 0..Len(worker.batch) :
          worker.queue = SubSeq(worker.batch, k + 1, Len(worker.batch))
    /\ (worker.pc = "loop" /\ worker'.pc = "running") =>
          /\ worker'.report = Some(Head(worker.queue))
          /\ worker'.queue = Tail(worker.queue)
          /\ Head(worker.queue).ID \in DOMAIN dbReports =>
                dbReports'[Head(worker.queue).ID].Status = "running"
    /\ (worker' # worker /\ worker'.pc = "running") => worker.pc = "loop"

\* the report the worker is processing is stored as `completed`, with report data
\* and no message, or as `failed`, with a message and no report data
C23_Stored(failed) ==
    LET id == worker.report[1].ID
    IN  id \in DOMAIN dbReports =>
           /\ id \in DOMAIN dbReports'
           /\ dbReports'[id].Status = IF failed THEN "failed" ELSE "completed"
           /\ (dbReports'[id].ErrorMessage # <<>>) <=> failed
           /\ (dbReports'[id].ReportData # <<>>) <=> ~failed

\* the outcome of a report is stored after `running`: `failed` when the file record
\* or the file is missing, the type is unknown or the parser returns an error,
\* `completed` otherwise
C23_Result ==
    /\ (worker.pc = "running" /\ worker'.pc = "loop") =>
          LET report == worker.report[1]
          IN  C23_Stored(\/ report.FileID \notin DOMAIN dbFiles
                         \/ report.ReportType \notin {"ttop", "iostat", "jfr"}
                         \/ dbFiles[report.FileID].FilePath \notin disk)
    /\ (worker.pc = "ttop" /\ worker'.pc = "loop") => C23_Stored(ttErr # None)
    /\ (worker.pc = "iostat" /\ worker'.pc = "loop") => C23_Stored(ioErr # None)
    /\ (worker.pc = "running" /\ worker'.pc \in {"ttop", "iostat"}) =>
          /\ worker.report[1].FileID \in DOMAIN dbFiles
          /\ dbFiles[worker.report[1].FileID].FilePath \in disk
          /\ worker'.pc = worker.report[1].ReportType
          /\ dbReports' = dbReports
    /\ (worker' # worker /\ worker'.pc = "loop") => worker.pc # "loop"

\* processReports returns when no row is left, and then none of the reports of its
\* rows is `pending` or `running`
C23_Return ==
    (worker.pc # "idle" /\ worker'.pc = "idle") =>
        /\ worker.pc = "loop"
        /\ worker.queue = <<>>
        /\ \A id \in IDsOf(worker.batch) :
              id \in DOMAIN dbReports => dbReports[id].Status \in {"completed", "failed"}

----------------------------------------------------------------------------
(* C24 *)

\* no two rows of table files have the same hash
OneRecordPerHash(t) == \A a, b \in DOMAIN t : t[a].Hash = t[b].Hash => a = b

\* the request of slot r, for upload u, has just looked its hash up
LookedUp(r, u) ==
    /\ uploads[r].pc \in {"idle", "done"}
    /\ uploads'[r] # uploads[r]
    /\ uploads'[r].upload = u

\* C24: an upload whose lookup finds a record of its hash that is not deleted changes
\* neither table files nor table reports and is answered with that record and the
\* message "File already exists"; and in every state, also while the same content is
\* being uploaded by two requests side by side, no two file records have the same
\* hash.
C24_OneRecordPerHash ==
    [][/\ OneRecordPerHash(dbFiles) /\ OneRecordPerHash(dbFiles')
       /\ \A r \in UploadSlots, u \in DOMAIN Uploads :
             LET existingFile == GetFileByHash(Sha256(Uploads[u].content))
             IN  (LookedUp(r, u) /\ existingFile # None /\ ~existingFile[1].Deleted) =>
                    /\ dbFiles' = dbFiles
                    /\ dbReports' = dbReports
                    /\ nextFileID' = nextFileID /\ nextReportID' = nextReportID
                    /\ uploads'[r].pc = "done"
                    /\ uploads'[r].resp =
                           Some(Respond(200, "File already exists", existingFile))]_vars

\* the same content was uploaded by two requests side by side: one has made the
\* record, the other could not save a second one; and the content, uploaded once
\* more under another name, has been answered with the record and "File already exists"
C24_Witness ==
    /\ uploads[1].upload = 2 /\ uploads[2].upload = 1
    /\ uploads[1].resp # None /\ uploads[2].resp # None
    /\ uploads[1].resp[1].message = "File already exists"
    /\ uploads[1].resp[1].file # None
    /\ uploads[1].resp[1].file[1].OriginalName = Uploads[1].name
    /\ uploads[2].resp[1].message = "Failed to save file record"
    /\ Cardinality({id \in DOMAIN dbFiles : dbFiles[id].Hash = Sha256(1)}) = 1
    /\ Cardinality({r \in DOMAIN dbReports : dbReports[r].ReportType = FileTypeTTop}) = 1

----------------------------------------------------------------------------
(* C25 *)

\* the request of slot r, whose lookup found a deleted record, has been answered
Restored(r) == uploads[r].pc = "restore" /\ uploads'[r].pc = "done"

\* the row of table files that the restore of upload u leaves under id
RestoredRow(id, u) ==
    [ID           |-> id,
     Hash         |-> Sha256(Uploads[u].content),
     OriginalName |-> Uploads[u].name,
     FileType     |-> UploadTypes[u],
     FileSize     |-> Len(ContentBytes(Uploads[u].content)),
     UploadTime   |-> today,
     FilePath     |-> PathOf(Sha256(Uploads[u].content)),
     Deleted      |-> FALSE,
     DeletedTime  |-> None]

\* the file is on disk again, the record found by the lookup is there under its id,
\* not deleted, refreshed, and no record was added
RestoredAsClaimed(r) ==
    LET u  == uploads[r].upload
        id == uploads[r].seen[1].ID
    IN  /\ PathOf(Sha256(Uploads[u].content)) \in disk'
        /\ DOMAIN dbFiles' = DOMAIN dbFiles
        /\ id \in DOMAIN dbFiles'
        /\ dbFiles'[id] = RestoredRow(id, u)
        /\ \A other \in DOMAIN dbFiles \ {id} : dbFiles'[other] = dbFiles[other]

\* C25: an upload whose hash matches a record marked deleted restores that record
\* under its ID: the file is on disk again, deleted flag and deleted time are
\* cleared, name, type, size, path and upload time are those of the upload, and no
\* second record is made.
C25_AsClaimed ==
    [][\A r \in UploadSlots : Restored(r) => RestoredAsClaimed(r)]_vars

\* the same, for the uploads whose record is still in the table when they restore it;
\* the others write the file and change no record: they find none afterwards, or the
\* one another upload has made of the content meanwhile
C25_RestoredWhileThere ==
    [][\A r \in UploadSlots :
          Restored(r) =>
             IF uploads[r].seen[1].ID \in DOMAIN dbFiles
             THEN /\ RestoredAsClaimed(r)
                  /\ uploads'[r].resp =
                        Some(Respond(200, "File restored successfully",
                                     Some(dbFiles'[uploads[r].seen[1].ID])))
             ELSE /\ dbFiles' = dbFiles
                  /\ PathOf(Sha256(Uploads[uploads[r].upload].content)) \in disk'
                  /\ uploads'[r].resp =
                        LET found == GetFileByHash(Sha256(Uploads[uploads[r].upload].content))
                        IN  IF found = None
                            THEN Some(Respond(500, "Failed to get restored file", None))
                            ELSE Some(Respond(200, "File restored successfully", found))]_vars

\* a file uploaded as ttop.txt and deleted has been uploaded again as a.txt: record 1
\* is back under its ID with the new name, and it is the only record
C25_Witness ==
    \E r \in UploadSlots :
        /\ uploads[r].pc = "done"
        /\ uploads[r].upload = 2
        /\ uploads[r].resp # None
        /\ uploads[r].resp[1].message = "File restored successfully"
        /\ DOMAIN dbFiles = {1}
        /\ dbFiles[1].OriginalName = Uploads[2].name
        /\ ~dbFiles[1].Deleted
        /\ dbFiles[1].DeletedTime = None
        /\ dbFiles[1].FilePath \in disk

----------------------------------------------------------------------------
(* C26 *)

\* the reports of a file, in the table t
ReportsOf(t, fileID) == {r \in DOMAIN t : t[r].FileID = fileID}

\* DELETE /api/files/{id} is answered
FileDeleteAnswered == fileOp.pc = "mark" /\ fileOp'.pc = "idle"

\* C26: when DELETE /api/files/{id} is answered, the file of the record is not in the
\* uploads directory and the record is marked deleted; no statement of the request
\* removes a file record, and none adds, removes or changes a report, so the file has
\* the reports it had, with their content.
C26_AsClaimed ==
    [][/\ fileOp' # fileOp =>
             /\ dbReports' = dbReports
             /\ DOMAIN dbFiles' = DOMAIN dbFiles
       /\ FileDeleteAnswered =>
             LET id == fileOp.file[1].ID
             IN  /\ fileOp.file[1].FilePath \notin disk'
                 /\ id \in DOMAIN dbFiles => dbFiles'[id].Deleted
      ]_vars

\* the same, statement by statement: os.Remove takes the file out of the directory,
\* MarkFileDeleted marks the record and changes nothing else
C26_StatementByStatement ==
    [][/\ fileOp' # fileOp =>
             /\ dbReports' = dbReports
             /\ DOMAIN dbFiles' = DOMAIN dbFiles
       /\ (fileOp.pc = "remove" /\ fileOp'.pc = "mark") =>
             /\ fileOp.file[1].FilePath \notin disk'
             /\ dbFiles' = dbFiles
       /\ FileDeleteAnswered =>
             LET id == fileOp.file[1].ID
             IN  /\ disk' = disk
                 /\ id \in DOMAIN dbFiles =>
                       /\ dbFiles'[id] = [dbFiles[id] EXCEPT !.Deleted = TRUE,
                                                              !.DeletedTime = Some(today)]
                       /\ ReportsOf(dbReports', id) = ReportsOf(dbReports, id)
                       /\ \A other \in DOMAIN dbFiles \ {id} : dbFiles'[other] = dbFiles[other]
      ]_vars

\* a file with two reports has just been deleted through the API: its record is
\* there, marked deleted, its file is gone from disk, and both reports are there
C26_Witness ==
    /\ fileOp.pc = "idle"
    /\ 1 \in DOMAIN dbFiles
    /\ dbFiles[1].Deleted
    /\ dbFiles[1].DeletedTime # None
    /\ dbFiles[1].FilePath \notin disk
    /\ Cardinality(ReportsOf(dbReports, 1)) = 2

----------------------------------------------------------------------------
(* C27 *)

\* a statement of DELETE /api/reports/{id} takes a row out of table files
ReportDeleteRemovesRecord == reportOp' # reportOp /\ DOMAIN dbFiles' # DOMAIN dbFiles

\* DELETE /api/reports/{id} is answered after the report has been deleted
ReportDeleteAnswered == reportOp.pc \in {"file", "count", "purge"} /\ reportOp'.pc = "idle"

\* C27: the deletion of a report removes a file record only if it is the record of the
\* report's file, that file is marked deleted and no report of it is left; and when
\* the request is answered, the record of the file is not left behind marked deleted
\* and without a report.
C27_AsClaimed ==
    [][/\ ReportDeleteRemovesRecord =>
             LET f == reportOp.report[1].FileID
             IN  /\ DOMAIN dbFiles' = DOMAIN dbFiles \ {f}
                 /\ dbFiles[f].Deleted
                 /\ ReportsOf(dbReports, f) = {}
       /\ ReportDeleteAnswered =>
             LET f == reportOp.report[1].FileID
             IN  ~(/\ f \in DOMAIN dbFiles'
                   /\ dbFiles'[f].Deleted
                   /\ ReportsOf(dbReports', f) = {})
      ]_vars

\* the same, for what the request has read: the record is removed when GetFileByID
\* gave a file marked deleted and GetReportCountByFileID gave 0, whatever the file
\* is when DeleteFileCompletely runs (unless a report of it holds the row back)
C27_ByWhatWasRead ==
    [][/\ ReportDeleteRemovesRecord =>
             /\ reportOp.pc = "purge"
             /\ reportOp.file[1] = reportOp.report[1].FileID
             /\ DOMAIN dbFiles' = DOMAIN dbFiles \ {reportOp.file[1]}
       /\ (reportOp.pc = "file" /\ reportOp'.pc = "count") =>
             dbFiles[reportOp.report[1].FileID].Deleted
       /\ (reportOp.pc = "file" /\ reportOp'.pc = "idle") =>
             \/ reportOp.report[1].FileID \notin DOMAIN dbFiles
             \/ ~dbFiles[reportOp.report[1].FileID].Deleted
       /\ (reportOp.pc = "count" /\ reportOp'.pc = "purge") =>
             ReportsOf(dbReports, reportOp.file[1]) = {}
       /\ (reportOp.pc = "count" /\ reportOp'.pc = "idle") =>
             ReportsOf(dbReports, reportOp.file[1]) # {}
       /\ (reportOp.pc = "purge" /\ reportOp'.pc = "idle") =>
             \/ reportOp.file[1] \notin DOMAIN dbFiles'
             \/ ReportsOf(dbReports, reportOp.file[1]) # {}
      ]_vars

\* a file was uploaded and deleted, a second report of it was asked for, and both
\* reports were deleted: with the second of them the record of the file has gone
C27_Witness ==
    /\ reportOp.pc = "idle"
    /\ fileOp.pc = "idle"
    /\ uploads[1].pc = "done"
    /\ nextFileID = 2
    /\ nextReportID = 3
    /\ dbReports = <<>>
    /\ dbFiles = <<>>

----------------------------------------------------------------------------
(* C28 *)

\* cleanupOrphanedFileEntries runs DeleteFileCompletely for the first of its files
PurgeStep == cleaner.pc = "purge" /\ cleaner' # cleaner

\* the file that DeleteFileCompletely is run for
PurgedFile == Head(cleaner.files).ID

\* the record of file f is marked deleted and no report has its id
IsOrphan(f) ==
    /\ f \in DOMAIN dbFiles
    /\ dbFiles[f].Deleted
    /\ ReportsOf(dbReports, f) = {}

\* C28: cleanupOrphanedFileEntries takes its files from the records that are marked
\* deleted and have no report, all of them, and it removes the record of a file
\* exactly when the record is marked deleted and has no report: never a record that
\* is not marked deleted, never one that still has a report.
C28_AsClaimed ==
    [][/\ (cleaner.pc = "orphans" /\ cleaner' # cleaner) =>
             \A f \in DOMAIN dbFiles :
                 IsOrphan(f) <=> \E i \in 1..Len(cleaner'.files) : cleaner'.files[i].ID = f
       /\ PurgeStep =>
             /\ DOMAIN dbFiles' = DOMAIN dbFiles \ {f \in {PurgedFile} : IsOrphan(f)}
             /\ \A f \in DOMAIN dbFiles' : dbFiles'[f] = dbFiles[f]
      ]_vars

\* Statement by statement: the query of cleanupOrphanedFileEntries lists the records
\* that are marked deleted and have no report at that moment, and DeleteFileCompletely
\* takes out no record but the one it is run for.
C28_ByWhatWasRead ==
    [][/\ (cleaner.pc = "orphans" /\ cleaner' # cleaner) =>
             \A f \in DOMAIN dbFiles :
                 IsOrphan(f) <=> \E i \in 1..Len(cleaner'.files) : cleaner'.files[i].ID = f
       /\ PurgeStep =>
             /\ DOMAIN dbFiles \ {PurgedFile} \subseteq DOMAIN dbFiles'
             /\ DOMAIN dbFiles' \subseteq DOMAIN dbFiles
             /\ \A f \in DOMAIN dbFiles' : dbFiles'[f] = dbFiles[f]
      ]_vars

\* cleanupOrphanedFileEntries is about to run DeleteFileCompletely for a file whose
\* record, marked deleted and without a report when the query listed it, has been
\* restored by an upload of the same content since
C28_Witness ==
    /\ cleaner.pc = "purge"
    /\ PurgedFile \in DOMAIN dbFiles
    /\ ~dbFiles[PurgedFile].Deleted
    /\ ReportsOf(dbReports, PurgedFile) = {}
    /\ uploads[1].resp # None
    /\ uploads[1].resp[1].message = "File restored successfully"

----------------------------------------------------------------------------
(* C29 *)

\* the cleanup worker takes a step
CleanerStep == cleaner' # cleaner

\* the file records that are not marked deleted and were uploaded before the time c
OldFiles(c) == {f \in DOMAIN dbFiles : ~dbFiles[f].Deleted /\ dbFiles[f].UploadTime < c}

\* the file records with an upload time before the time c
UploadedBefore(c) == {f \in DOMAIN dbFiles : dbFiles[f].UploadTime < c}

\* the files that the step deletes: taken from the disk, or newly marked deleted
DeletedByStep ==
    {f \in DOMAIN dbFiles :
        \/ dbFiles[f].FilePath \in disk \ disk'
        \/ f \in DOMAIN dbFiles' /\ dbFiles'[f].Deleted /\ ~dbFiles[f].Deleted}

\* performCleanup has found the disk usage at or below the threshold
NoCleanupNeeded == cleaner.usage # None /\ ~FloatLess(cleaner.max[1], cleaner.usage[1])

\* C29: cleanupOldFiles takes every file that is not deleted and was uploaded before
\* now minus the stored retention period, whether or not its physical file is there;
\* of each it removes the physical file and marks the record deleted; the file it
\* removes or marks is one uploaded before that cutoff; and a run of performCleanup
\* that found the usage at or below the threshold deletes no other file.
C29_AsClaimed ==
    [][/\ (CleanerStep /\ cleaner.pc = "old") =>
             /\ cleaner'.cutoff = Some(today - Atoi(settings.file_retention_days[1]).val)
             /\ {cleaner'.files[i].ID : i \in 1..Len(cleaner'.files)}
                    = OldFiles(cleaner'.cutoff[1])
       /\ (CleanerStep /\ cleaner.pc = "oldRemove") =>
             /\ Head(cleaner.files).ID \in DOMAIN dbFiles =>
                    Head(cleaner.files).ID \in UploadedBefore(cleaner.cutoff[1])
             /\ Head(cleaner.files).FilePath \notin disk'
       /\ (CleanerStep /\ cleaner.pc = "oldMark" /\ Head(cleaner.files).ID \in DOMAIN dbFiles) =>
             /\ Head(cleaner.files).ID \in UploadedBefore(cleaner.cutoff[1])
             /\ dbFiles'[Head(cleaner.files).ID].Deleted
       /\ (CleanerStep /\ NoCleanupNeeded /\ DeletedByStep # {}) =>
             /\ cleaner.cutoff # None
             /\ DeletedByStep \subseteq UploadedBefore(cleaner.cutoff[1])
      ]_vars

\* Statement by statement: the query of cleanupOldFiles lists the files that are not
\* deleted and were uploaded before the cutoff at that moment; os.Remove and
\* MarkFileDeleted are run for the files listed, with the path that was read; and a
\* run that found the usage at or below the threshold deletes a file nowhere else.
C29_ByWhatWasRead ==
    [][/\ (CleanerStep /\ cleaner.pc = "old") =>
             /\ cleaner'.cutoff = Some(today - Atoi(settings.file_retention_days[1]).val)
             /\ {cleaner'.files[i].ID : i \in 1..Len(cleaner'.files)}
                    = OldFiles(cleaner'.cutoff[1])
       /\ (CleanerStep /\ cleaner.pc = "oldRemove") =>
             /\ Head(cleaner.files).UploadTime < cleaner.cutoff[1]
             /\ disk' = disk \ {Head(cleaner.files).FilePath}
             /\ dbFiles' = dbFiles
       /\ (CleanerStep /\ cleaner.pc = "oldMark") =>
             /\ Head(cleaner.files).UploadTime < cleaner.cutoff[1]
             /\ dbFiles' = MarkFileDeleted(dbFiles, Head(cleaner.files).ID, today)
             /\ disk' = disk
       /\ (CleanerStep /\ NoCleanupNeeded /\ DeletedByStep # {}) =>
             cleaner.pc \in {"oldRemove", "oldMark"}
      ]_vars

\* cleanupOldFiles is about to remove a file that it listed as uploaded before the
\* cutoff and that has since been deleted by request and uploaded again
C29_Witness ==
    /\ cleaner.pc = "oldRemove"
    /\ NoCleanupNeeded
    /\ Head(cleaner.files).ID \in DOMAIN dbFiles
    /\ ~dbFiles[Head(cleaner.files).ID].Deleted
    /\ dbFiles[Head(cleaner.files).ID].UploadTime >= cleaner.cutoff[1]
    /\ Head(cleaner.files).UploadTime < cleaner.cutoff[1]
    /\ Head(cleaner.files).FilePath \in disk

----------------------------------------------------------------------------
(* C30 *)

\* the threshold stored in table settings, as ParseFloat reads it
StoredThreshold(t) == Float64(ParseFloat(t.max_disk_usage[1]).val, 0)

\* HandleSettings starts a goroutine that runs TriggerCleanup
CleanupIsTriggered == goTrigger' > goTrigger

\* C30: a step triggers a cleanup exactly when it stores a max_disk_usage strictly
\* lower than the threshold stored before; a step that keeps or raises the stored
\* threshold triggers none.
C30_AsClaimed ==
    [][CleanupIsTriggered <=>
           FloatLess(StoredThreshold(settings'), StoredThreshold(settings))]_vars

\* What the handler compares: a step triggers a cleanup exactly when it is the step of
\* a request that passes the range check and whose percentage divided by 100.0, not
\* yet rounded to the six decimals that are stored, is strictly lower than the stored
\* threshold.
C30_Unrounded ==
    [][CleanupIsTriggered <=>
           \E q \in DOMAIN SettingsRequests :
               /\ goTrigger' >= goTrigger /\ triggerChan' = triggerChan /\ cleaner' = cleaner
               /\ SettingsParsed[q].inRange
               /\ settings'.max_disk_usage = Some(SettingsParsed[q].value)
               /\ cfg'.MaxDiskUsage = SettingsParsed[q].maxUsageDecimal
               /\ FloatLess(SettingsParsed[q].maxUsageDecimal, StoredThreshold(settings))
      ]_vars

\* 16.4 has been posted: 0.164000 is stored, the quotient 16.4 / 100.0 is lower than
\* the float64 read back from it, and a cleanup has been triggered
C30_Witness ==
    /\ settings.max_disk_usage = Some(<<"0", ".", "1", "6", "4", "0", "0", "0">>)
    /\ FloatLess(cfg.MaxDiskUsage, StoredThreshold(settings))
    /\ goTrigger > 0
    /\ goTrigger < MaxGoroutines

----------------------------------------------------------------------------
(* C31 *)

\* the step stores a new file: InsertFile has added the record f
StoresNewFile(f) == f \notin DOMAIN dbFiles /\ f \in DOMAIN dbFiles'

\* the step answers a request for re-detection with the file of the request
RedetectAnswered == redetectOp.pc = "report" /\ redetectOp'.pc = "idle"

\* the reports that the step has added to table reports
NewReports == DOMAIN dbReports' \ DOMAIN dbReports

\* the step leaves the reports there were as they were and adds one pending report of
\* this type for file f
QueuesOne(f, type) ==
    /\ Cardinality(NewReports) = 1
    /\ \A r \in DOMAIN dbReports : r \in DOMAIN dbReports' /\ dbReports'[r] = dbReports[r]
    /\ \A r \in NewReports :
          /\ dbReports'[r].FileID = f
          /\ dbReports'[r].ReportType = type
          /\ dbReports'[r].Status = "pending"

\* the step queues a report if and only if the type is jfr, ttop or iostat
QueuesByType(f, type) ==
    IF type \in {"jfr", "ttop", "iostat"} THEN QueuesOne(f, type) ELSE dbReports' = dbReports

----------------------------------------------------------------------------
(* C32 *)

\* performCleanup has been called and has not returned
InPerformCleanup == cleaner.pc # "idle"

\* os.Remove fails in the loop of performCleanup
RemoveFails == cleaner.pc = "oldestRemove" /\ cleaner'.pc # "oldestMark"

\* C32: performCleanup always returns: whenever it has been called, it returns after
\* finitely many steps, also when os.Remove fails at every file or the usage of the
\* disk stays above the threshold
C32_AsClaimed == InPerformCleanup ~> ~InPerformCleanup

\* performCleanup returns when, from some iteration of its loop on, os.Remove no
\* longer fails
C32_WhenRemoved == <>[][~RemoveFails]_vars => (InPerformCleanup ~> ~InPerformCleanup)

\* the loop of performCleanup, the usage above the threshold, has deleted no file and
\* is at the second of the two files it has found: os.Remove has failed at the first
C32_Witness ==
    /\ cleaner.pc = "oldestRemove"
    /\ cleaner.deletedCount = 0
    /\ FloatLess(cleaner.max[1], cleaner.usage[1])
    /\ Len(cleaner.files) = 1
    /\ Cardinality({i \in DOMAIN dbFiles : ~dbFiles[i].Deleted}) = 2
    /\ \A i \in DOMAIN dbFiles : dbFiles[i].FilePath \in disk

----------------------------------------------------------------------------
(* C33 *)

\* the loop of performCleanup deletes a file: os.Remove of deleteFile
LoopDeletes == cleaner.pc = "oldestRemove" /\ cleaner'.pc = "oldestMark"

\* the file that the loop of performCleanup is at
LoopFile == Head(cleaner.files)

\* the file at which the loop is has not been deleted, and no file that has not been
\* deleted was uploaded before it
OldestFirst ==
    /\ LoopFile.ID \in DOMAIN dbFiles
    /\ ~dbFiles[LoopFile.ID].Deleted
    /\ \A g \in DOMAIN dbFiles :
          ~dbFiles[g].Deleted => dbFiles[g].UploadTime >= dbFiles[LoopFile.ID].UploadTime

\* C33: when disk usage exceeds the threshold, performCleanup deletes the files that
\* have not been deleted oldest first, and it deletes a file only while the usage of
\* the disk is above the threshold
C33_AsClaimed ==
    [][LoopDeletes =>
          /\ OldestFirst
          /\ FloatLess(getMaxDiskUsage, Float64(DiskUsedBy(disk), 0))]_vars

\* performCleanup deletes oldest first, and only while the usage it has read last,
\* before the loop or after a fifth, tenth, ... deletion, is above the threshold
C33_AsLastRead ==
    [][LoopDeletes =>
          /\ OldestFirst
          /\ FloatLess(cleaner.max[1], cleaner.usage[1])]_vars

\* the loop of performCleanup has deleted the older of two files, which has brought
\* the disk down to the threshold, and is at the younger one
C33_Witness ==
    /\ cleaner.pc = "oldestRemove"
    /\ cleaner.deletedCount = 1
    /\ ~FloatLess(getMaxDiskUsage, Float64(DiskUsedBy(disk), 0))
    /\ \E f \in DOMAIN dbFiles :
          /\ dbFiles[f].Deleted
          /\ dbFiles[f].UploadTime < dbFiles[LoopFile.ID].UploadTime
    /\ ~dbFiles[LoopFile.ID].Deleted
    /\ LoopFile.FilePath \in disk

----------------------------------------------------------------------------
(* C34 *)

\* a goroutine runs TriggerCleanup to its end
TriggerReturns == goTrigger' < goTrigger

\* C34: TriggerCleanup never blocks its caller, whatever the cleanup worker is doing:
\* a goroutine that is to run it can always run it to its end, and this leaves the
\* worker where it is; at most one trigger is pending at any time, and a trigger sent
\* while one is pending changes nothing
C34_NeverBlocks ==
    [][/\ goTrigger > 0 => ENABLED TriggerCleanup
       /\ triggerChan <= 1 /\ triggerChan' <= 1
       /\ TriggerReturns => /\ triggerChan' = 1
                            /\ cleaner' = cleaner
                            /\ goTrigger' = goTrigger - 1]_vars

\* a trigger is pending and a goroutine is about to send another one while the cleanup
\* worker is inside performCleanup
C34_Witness ==
    /\ triggerChan = 1
    /\ goTrigger > 0
    /\ cleaner.pc \notin {"idle", "perform"}

----------------------------------------------------------------------------
(* C35 *)

\* line j of the input has opened a snapshot: a timestamp line that was not taken as
\* the system-info line
OpensSnapshot(j) ==
    /\ IOStatShape[ioInput[j]].timestamp
    /\ ~(/\ IOStatShape[ioInput[j]].linux
         /\ \A k \in 1..(j - 1) : ~IOStatShape[ioInput[k]].linux)

\* an `avg-cpu:` line has been delivered since the open snapshot was opened
HeaderOfSnapshot ==
    \E j \in 1..Len(ioInput) :
        /\ IOStatShape[ioInput[j]].avgcpu
        /\ \A k \in j..Len(ioInput) : ~OpensSnapshot(k)

\* the line delivered gives the open snapshot its CPU statistics
TakesCPUStats ==
    /\ LacksCPU
    /\ ioCurrent' # None
    /\ ioCurrent'[1].CPUStats # None

\* C35: a line gives a snapshot its CPU statistics only when an `avg-cpu:` header has
\* been delivered since the timestamp line of the snapshot
C35_AsClaimed == [][TakesCPUStats => HeaderOfSnapshot]_vars

\* a snapshot has its CPU statistics and the input has no `avg-cpu:` line at all
C35_Witness ==
    /\ HasCPU
    /\ \A j \in 1..Len(ioInput) : ~IOStatShape[ioInput[j]].avgcpu

====
